---- MODULE Spec2Model ----
(***************************************************************************)
(* A model of the tgrelay webhook router, credential verifier and access   *)
(* control pipeline (monitor.ts of extensions/tgrelay).                    *)
(*                                                                         *)
(* JavaScript strings are sequences of one-character strings.  A value    *)
(* that may be undefined, a string or a number is a tagged record.         *)
(***************************************************************************)
EXTENDS Integers, Sequences, FiniteSets, TLC

VARIABLES
    \* ---- the allowlist matcher applied to drawn inputs
    aPc, aSenderId, aUsername, aAllowFrom, aResult,
    \* ---- the credential verifier applied to drawn inputs
    vPc, vReq, vSecret, vResult,
    \* ---- the webhook router
    webhookTargets,   \* Map<string, WebhookTarget[]>: normalized path -> targets
    nextTargetId,     \* identity of the next normalizedTarget object
    unregisterFns,    \* the unregister closures handed out, by their target
    unregistered,     \* ids of the targets whose unregister call has completed
    hreq,             \* the handleTgrelayWebhookRequest invocation under observation
    \* ---- message processing
    cfg,              \* the account and its configuration
    allowStore,       \* pairing allow store of channel tgrelay: approved sender ids
    pairingPending,   \* sender ids with an outstanding pairing request
    approvals,        \* sender ids approved so far, in order
    requestsCreated,  \* per sender: pairing requests created by upsertPairingRequest
    codesSent,        \* per sender: pairing-code replies handed to sendTgrelayText
    tasks,            \* the processMessageWithPipeline invocations
    \* ---- the group configuration resolver applied to drawn inputs
    gPc, gIn, gOut,
    \* ---- the mention extractor applied to drawn inputs
    mPc, mIn, mOut,
    \* ---- the RPC transformer
    rpcOpts,          \* the options createRpcTransformer was called with
    rpc,              \* the transformer call under observation
    \* ---- the RPC payload pre-pass applied to drawn inputs
    ePc, eIn, eOut,
    \* ---- webhook startup
    startup,          \* the startTelegramWebhook invocation
    \* ---- the outbound relay
    snd,              \* the sendTgrelayText / sendTgrelayMedia call under observation
    \* ---- the path normalizer applied to drawn inputs
    nPc, nIn, nOut,
    \* ---- account resolution applied to drawn configurations
    acct,
    \* ---- the pairing approval notification
    ntf,
    \* ---- the delivery of one reply
    dlv,
    \* ---- the browser control service
    bcs

allowVars == <<aPc, aSenderId, aUsername, aAllowFrom, aResult>>
verifyVars == <<vPc, vReq, vSecret, vResult>>
routerVars == <<webhookTargets, nextTargetId, unregisterFns, unregistered, hreq>>
pipelineVars ==
    <<cfg, allowStore, pairingPending, approvals, requestsCreated, codesSent, tasks>>
groupVars == <<gPc, gIn, gOut>>
mentionVars == <<mPc, mIn, mOut>>
rpcVars == <<rpcOpts, rpc>>
encodeVars == <<ePc, eIn, eOut>>
startVars == <<startup>>
sendVars == <<snd>>
pathVars == <<nPc, nIn, nOut>>
midVars == <<encodeVars, startVars, sendVars, pathVars>>
lastVars == <<acct, ntf, dlv, bcs>>
lateVars == <<midVars, lastVars>>
moreVars == <<groupVars, mentionVars, rpcVars, lateVars>>
earlyVars ==
    <<allowVars, verifyVars, routerVars, pipelineVars, groupVars, mentionVars, rpcVars>>
vars == <<allowVars, verifyVars, routerVars, pipelineVars, moreVars>>

(***************************************************************************)
(* Values                                                                  *)
(***************************************************************************)
Undefined == [k |-> "undefined"]
Str(s) == [k |-> "str", v |-> s]
Num(n) == [k |-> "num", v |-> n]

IsStr(x) == x.k = "str"
IsNum(x) == x.k = "num"

\* JavaScript truthiness of an optional string: undefined and "" are falsy.
Truthy(x) == IsStr(x) /\ x.v # <<>>

(***************************************************************************)
(* String primitives                                                       *)
(***************************************************************************)
toLowerCaseChar(c) ==
    CASE c = "B" -> "b"
      [] c = "O" -> "o"
      [] c = "T" -> "t"
      [] c = "G" -> "g"
      [] c = "R" -> "r"
      [] c = "D" -> "d"
      [] c = "M" -> "m"
      [] c = "Y" -> "y"
      [] c = "E" -> "e"
      [] c = "V" -> "v"
      [] OTHER -> c

toLowerCase(s) == [i \in 1..Len(s) |-> toLowerCaseChar(s[i])]

IsWhite(c) == c = " "

RECURSIVE trimStart(_)
trimStart(s) ==
    IF s # <<>> /\ IsWhite(Head(s)) THEN trimStart(Tail(s)) ELSE s

RECURSIVE trimEnd(_)
trimEnd(s) ==
    IF s # <<>> /\ IsWhite(s[Len(s)]) THEN trimEnd(SubSeq(s, 1, Len(s) - 1)) ELSE s

trim(s) == trimEnd(trimStart(s))

startsWith(s, p) == Len(s) >= Len(p) /\ SubSeq(s, 1, Len(p)) = p

endsWith(s, p) == Len(s) >= Len(p) /\ SubSeq(s, Len(s) - Len(p) + 1, Len(s)) = p

\* s.replace(/^@/, "")
stripLeadingAt(s) == IF startsWith(s, <<"@">>) THEN Tail(s) ELSE s

Digit(d) ==
    CASE d = 0 -> "0" [] d = 1 -> "1" [] d = 2 -> "2" [] d = 3 -> "3"
      [] d = 4 -> "4" [] d = 5 -> "5" [] d = 6 -> "6" [] d = 7 -> "7"
      [] d = 8 -> "8" [] d = 9 -> "9"

RECURSIVE NatToString(_)
NatToString(n) ==
    IF n < 10 THEN <<Digit(n)>> ELSE NatToString(n \div 10) \o <<Digit(n % 10)>>

\* String(x) for a string or an integer
String(x) ==
    IF IsNum(x)
    THEN (IF x.v < 0 THEN <<"-">> \o NatToString(-x.v) ELSE NatToString(x.v))
    ELSE x.v

(***************************************************************************)
(* isSenderAllowed                                                         *)
(***************************************************************************)
pfxTgrelay == <<"t", "g", "r", "e", "l", "a", "y", ":">>
pfxTelegramRelay ==
    <<"t", "e", "l", "e", "g", "r", "a", "m", "-", "r", "e", "l", "a", "y", ":">>
pfxTgRelay == <<"t", "g", "-", "r", "e", "l", "a", "y", ":">>

\* s.replace(/^(tgrelay|telegram-relay|tg-relay):/i, "")
stripChannelPrefix(s) ==
    LET hit(p) == Len(s) >= Len(p) /\ toLowerCase(SubSeq(s, 1, Len(p))) = p
        drop(p) == SubSeq(s, Len(p) + 1, Len(s))
    IN  IF hit(pfxTgrelay) THEN drop(pfxTgrelay)
        ELSE IF hit(pfxTelegramRelay) THEN drop(pfxTelegramRelay)
        ELSE IF hit(pfxTgRelay) THEN drop(pfxTgRelay)
        ELSE s

normalizeUserId(raw) ==
    IF raw = Undefined THEN <<>> ELSE toLowerCase(trim(String(raw)))

\* the entry compared without lower-casing
normalizeAllowEntry_keepCase(entry) == stripLeadingAt(trim(String(entry)))

\* String(entry).trim().toLowerCase().replace(/^@/, "")
normalizeAllowEntry(entry) == stripLeadingAt(toLowerCase(trim(String(entry))))

\* senderUsername?.trim().toLowerCase().replace(/^@/, "") ?? ""
normalizeUsername(u) ==
    IF u = Undefined THEN <<>> ELSE stripLeadingAt(toLowerCase(trim(u.v)))

entryMatches(entry, normalizedSenderId, normalizedUsername) ==
    LET normalized == normalizeAllowEntry(entry)
    IN  IF normalized = <<>> THEN FALSE
        ELSE IF normalized = normalizedSenderId THEN TRUE
        ELSE IF normalizedUsername # <<>> /\ normalized = normalizedUsername THEN TRUE
        ELSE IF stripChannelPrefix(normalized) = normalizedSenderId THEN TRUE
        ELSE FALSE

isSenderAllowed(senderId, senderUsername, allowFrom) ==
    IF \E i \in 1..Len(allowFrom) : allowFrom[i] = Str(<<"*">>)
    THEN TRUE
    ELSE \E i \in 1..Len(allowFrom) :
            entryMatches(allowFrom[i], normalizeUserId(senderId),
                         normalizeUsername(senderUsername))

(***************************************************************************)
(* verifyInboundSecret                                                     *)
(***************************************************************************)
sBearerSp == <<"B", "e", "a", "r", "e", "r", " ">>

\* `Bearer ${expectedSecret}`
bearerOf(secret) == Str(sBearerSp \o secret.v)

\* the verifier without the Authorization scheme
verifyInboundSecret_noBearer(req, expectedSecret) ==
    IF ~Truthy(expectedSecret) THEN TRUE
    ELSE IF req.header = expectedSecret THEN TRUE
    ELSE IF req.query = expectedSecret THEN TRUE
    ELSE FALSE

verifyInboundSecret(req, expectedSecret) ==
    IF ~Truthy(expectedSecret) THEN TRUE
    ELSE IF req.header = expectedSecret THEN TRUE
    ELSE IF req.query = expectedSecret THEN TRUE
    ELSE IF (IF req.authorization = Undefined THEN Str(<<>>) ELSE req.authorization)
            = bearerOf(expectedSecret) THEN TRUE
    ELSE FALSE

(***************************************************************************)
(* The webhook registry                                                    *)
(***************************************************************************)
\* a normalization that keeps the trailing slash
normalizeWebhookPath_keepsTrailingSlash(raw) ==
    LET trimmed == trim(raw)
    IN  IF trimmed = <<>> THEN <<"/">>
        ELSE IF startsWith(trimmed, <<"/">>) THEN trimmed ELSE <<"/">> \o trimmed

\* lines 44-54
normalizeWebhookPath(raw) ==
    LET trimmed == trim(raw)
        withSlash == IF startsWith(trimmed, <<"/">>) THEN trimmed ELSE <<"/">> \o trimmed
    IN  IF trimmed = <<>> THEN <<"/">>
        ELSE IF Len(withSlash) > 1 /\ endsWith(withSlash, <<"/">>)
             THEN SubSeq(withSlash, 1, Len(withSlash) - 1)
             ELSE withSlash

\* line 142: new URL(req.url ?? "/", "http://localhost").pathname, for a URL
\* made of path characters only
urlPathname(url) == IF startsWith(url, <<"/">>) THEN url ELSE <<"/">> \o url

\* webhookTargets.get(key) ?? []
targetsAt(registry, key) == IF key \in DOMAIN registry THEN registry[key] ELSE <<>>

\* a filter that compares the targets' secrets
withoutTarget_bySecret(list, target) ==
    SelectSeq(list, LAMBDA entry : entry.inboundSecret # target.inboundSecret)

\* filter((entry) => entry !== target): targets are compared by identity
RECURSIVE withoutTarget(_, _)
withoutTarget(list, target) ==
    IF list = <<>> THEN <<>>
    ELSE IF Head(list).id = target.id THEN withoutTarget(Tail(list), target)
    ELSE <<Head(list)>> \o withoutTarget(Tail(list), target)

\* the new target put in front of the existing ones
registerTgrelayWebhookTarget_prepend(registry, target) ==
    [k \in DOMAIN registry \cup {target.path} |->
        IF k = target.path THEN <<target>> \o targetsAt(registry, target.path)
        ELSE registry[k]]

\* the registry after registerTgrelayWebhookTarget(target); target.path is the key
registerTgrelayWebhookTarget(registry, target) ==
    [k \in DOMAIN registry \cup {target.path} |->
        IF k = target.path THEN Append(targetsAt(registry, target.path), target)
        ELSE registry[k]]

\* the registry after the unregister closure of `target` has run
unregisterTarget(registry, target) ==
    LET updated == withoutTarget(targetsAt(registry, target.path), target)
    IN  IF Len(updated) > 0
        THEN [k \in DOMAIN registry \cup {target.path} |->
                IF k = target.path THEN updated ELSE registry[k]]
        ELSE [k \in DOMAIN registry \ {target.path} |-> registry[k]]

TargetIds(list) == {list[i].id : i \in 1..Len(list)}

RegisteredIds(registry) == UNION {TargetIds(registry[k]) : k \in DOMAIN registry}

(***************************************************************************)
(* handleTgrelayWebhookRequest                                             *)
(***************************************************************************)
MaxBodyBytes == 1024 * 1024

\* what readJsonBody(req, maxBytes) resolves to
readJsonBody(body, maxBytes) ==
    IF body.len > maxBytes THEN [ok |-> FALSE, error |-> "payload too large", value |-> "none"]
    ELSE IF body.content = "streamError" THEN [ok |-> FALSE, error |-> "aborted", value |-> "none"]
    ELSE IF body.content \in {"empty", "blank"}
         THEN [ok |-> FALSE, error |-> "empty payload", value |-> "none"]
    ELSE IF body.content = "malformed"
         THEN [ok |-> FALSE, error |-> "Unexpected token", value |-> "none"]
    ELSE [ok |-> TRUE, error |-> "none", value |-> body.content]

\* !raw || typeof raw !== "object" || Array.isArray(raw)
notJsonObject(value) == value \in {"null", "number", "string", "array"}

\* typeof update.update_id === "number"
hasNumericUpdateId(value) == value \in {"update", "updateNoMessage"}

\* a selection that takes the first target without looking at the secret
selectTarget_noCheck(targets, cred) ==
    IF targets = <<>> THEN <<>> ELSE <<Head(targets)>>

\* the first target, in array order, whose secret check passes; <<>> when none
RECURSIVE selectTarget(_, _)
selectTarget(targets, cred) ==
    IF targets = <<>> THEN <<>>
    ELSE IF verifyInboundSecret(cred, Head(targets).inboundSecret) THEN <<Head(targets)>>
    ELSE selectTarget(Tail(targets), cred)

FreshResponse ==
    [ended |-> FALSE, statusCode |-> 200, allow |-> "none", contentType |-> "none",
     body |-> "none"]

Respond(status, text) ==
    [ended |-> TRUE, statusCode |-> status, allow |-> "none", contentType |-> "none",
     body |-> text]

\* the handler from the end of readJsonBody to its return, with the credential
\* check made before the body is validated
handleAfterBody_authFirst(targets, cred, body) ==
    LET read == readJsonBody(body, MaxBodyBytes)
        selected == selectTarget(targets, cred)
    IN  IF selected = <<>> THEN [res |-> Respond(401, "unauthorized"), selected |-> <<>>]
        ELSE IF ~read.ok
        THEN [res |-> Respond(IF read.error = "payload too large" THEN 413 ELSE 400, read.error),
              selected |-> <<>>]
        ELSE IF notJsonObject(read.value)
        THEN [res |-> Respond(400, "invalid payload"), selected |-> <<>>]
        ELSE IF ~hasNumericUpdateId(read.value)
        THEN [res |-> Respond(400, "invalid payload: missing update_id"), selected |-> <<>>]
        ELSE [res |-> [Respond(200, "{}") EXCEPT !.contentType = "application/json"],
              selected |-> selected]

\* the handler from the end of readJsonBody to its return
handleAfterBody(targets, cred, body) ==
    LET read == readJsonBody(body, MaxBodyBytes)
        selected == selectTarget(targets, cred)
    IN  IF ~read.ok
        THEN [res |-> Respond(IF read.error = "payload too large" THEN 413 ELSE 400, read.error),
              selected |-> <<>>]
        ELSE IF notJsonObject(read.value)
        THEN [res |-> Respond(400, "invalid payload"), selected |-> <<>>]
        ELSE IF ~hasNumericUpdateId(read.value)
        THEN [res |-> Respond(400, "invalid payload: missing update_id"), selected |-> <<>>]
        ELSE IF selected = <<>>
        THEN [res |-> Respond(401, "unauthorized"), selected |-> <<>>]
        ELSE [res |-> [Respond(200, "{}") EXCEPT !.contentType = "application/json"],
              selected |-> selected]

(***************************************************************************)
(* processMessageWithPipeline: the message and the configuration           *)
(***************************************************************************)
List(items) == [k |-> "list", v |-> items]

isGroupChat(msg) == msg.chatType \in {"group", "supergroup", "channel"}

\* sender?.id ?? 0
senderIdOf(msg) == IF msg.from = Undefined THEN Num(0) ELSE Num(msg.from.id)

senderUsernameOf(msg) == IF msg.from = Undefined THEN Undefined ELSE msg.from.username

\* no sender counts as a bot
senderIsBot_never(msg) == FALSE

senderIsBot(msg) == msg.from # Undefined /\ msg.from.isBot

\* x ?? y
orElse(x, y) == IF x # Undefined THEN x ELSE y

sMediaAttachment ==
    <<"<", "m", "e", "d", "i", "a", ":", "a", "t", "t", "a", "c", "h", "m", "e", "n", "t", ">">>

\* rawBody: the trimmed text or caption, else "<media:attachment>", else ""
rawBodyOf(msg) ==
    LET messageText == trim(orElse(orElse(msg.text, msg.caption), Str(<<>>)).v)
    IN  IF messageText # <<>> THEN messageText
        ELSE IF msg.hasMedia THEN sMediaAttachment ELSE <<>>

hasRawBody(msg) == rawBodyOf(msg) # <<>>

\* account.config.dm?.policy ?? "pairing"
dmPolicyOf(config) == IF config.dmPolicy = "unset" THEN "pairing" ELSE config.dmPolicy

\* the group policy without the channel-wide default
groupPolicyOf_ignoresDefault(config) ==
    IF config.groupPolicy # "unset" THEN config.groupPolicy ELSE "allowlist"

\* account.config.groupPolicy ?? defaultGroupPolicy ?? "allowlist"
groupPolicyOf(config) ==
    IF config.groupPolicy # "unset" THEN config.groupPolicy
    ELSE IF config.defaultGroupPolicy # "unset" THEN config.defaultGroupPolicy
    ELSE "allowlist"

\* some configured entry, whatever the candidates are
firstEntry_anyKey(candidates, entries) ==
    IF DOMAIN entries = {} THEN Undefined
    ELSE entries[CHOOSE key \in DOMAIN entries : TRUE]

\* the first candidate key that names an entry; Undefined when none does
RECURSIVE firstEntry(_, _)
firstEntry(candidates, entries) ==
    IF candidates = <<>> THEN Undefined
    ELSE IF Head(candidates) \in DOMAIN entries THEN entries[Head(candidates)]
    ELSE firstEntry(Tail(candidates), entries)

\* .filter(Boolean) on strings: the empty string is dropped
RECURSIVE nonEmptyStrings(_)
nonEmptyStrings(list) ==
    IF list = <<>> THEN <<>>
    ELSE IF Head(list) = <<>> THEN nonEmptyStrings(Tail(list))
    ELSE <<Head(list)>> \o nonEmptyStrings(Tail(list))

\* the "*" entry preferred to the entry of the chat
resolveGroupConfig_wildcardFirst(groupId, groupName, groups) ==
    IF DOMAIN groups = {}
    THEN [entry |-> Undefined, allowlistConfigured |-> FALSE, fallback |-> Undefined]
    ELSE
        LET name == IF groupName = Undefined THEN <<>> ELSE groupName.v
            candidates ==
                nonEmptyStrings(<<String(groupId), name, toLowerCase(trim(name))>>)
            fallback == IF <<"*">> \in DOMAIN groups THEN groups[<<"*">>] ELSE Undefined
        IN  [entry |-> IF fallback # Undefined THEN fallback
                       ELSE firstEntry(candidates, groups),
             allowlistConfigured |-> TRUE, fallback |-> fallback]

resolveGroupConfig(groupId, groupName, groups) ==
    IF DOMAIN groups = {}
    THEN [entry |-> Undefined, allowlistConfigured |-> FALSE, fallback |-> Undefined]
    ELSE
        LET name == IF groupName = Undefined THEN <<>> ELSE groupName.v
            normalizedName == toLowerCase(trim(name))
            candidates == nonEmptyStrings(<<String(groupId), name, normalizedName>>)
            entry == firstEntry(candidates, groups)
            fallback == IF <<"*">> \in DOMAIN groups THEN groups[<<"*">>] ELSE Undefined
        IN  [entry |-> IF entry # Undefined THEN entry ELSE fallback,
             allowlistConfigured |-> TRUE, fallback |-> fallback]

\* groupEntry?.users ?? account.config.groupAllowFrom ?? []
groupUsersOf(config, groupEntry) ==
    IF groupEntry # Undefined /\ groupEntry.users # Undefined THEN groupEntry.users.v
    ELSE IF config.groupAllowFrom # Undefined THEN config.groupAllowFrom.v
    ELSE <<>>

\* the mention requirement without the entry's own value
requireMentionOf_ignoresEntry(config, groupEntry) ==
    IF config.requireMention # "unset" THEN config.requireMention = "true" ELSE TRUE

\* groupEntry?.requireMention ?? account.config.requireMention ?? true
requireMentionOf(config, groupEntry) ==
    IF groupEntry # Undefined /\ groupEntry.requireMention # "unset"
    THEN groupEntry.requireMention = "true"
    ELSE IF config.requireMention # "unset" THEN config.requireMention = "true"
    ELSE TRUE

\* groupConfigResolved.entry?.systemPrompt?.trim() || undefined
groupSystemPromptOf(groupEntry) ==
    IF groupEntry # Undefined /\ groupEntry.systemPrompt # Undefined
          /\ trim(groupEntry.systemPrompt.v) # <<>>
    THEN Str(trim(groupEntry.systemPrompt.v))
    ELSE Undefined

\* what processMessageWithPipeline applies to a message of the chat
groupSettingsOf(config, groupId, groupName) ==
    LET groupEntry == resolveGroupConfig(groupId, groupName, config.groups).entry
    IN  [entry |-> groupEntry,
         users |-> groupUsersOf(config, groupEntry),
         requireMention |-> requireMentionOf(config, groupEntry),
         disabled |-> groupEntry # Undefined
                         /\ (groupEntry.enabled = "false" \/ groupEntry.allow = "false"),
         systemPrompt |-> groupSystemPromptOf(groupEntry)]

\* text.slice(start, end) for 0 <= start
slice(s, start, end) ==
    LET to == IF end < 0 THEN Len(s) + end ELSE IF end > Len(s) THEN Len(s) ELSE end
    IN  IF start >= to THEN <<>> ELSE SubSeq(s, start + 1, to)

\* the mention entities, in order
RECURSIVE mentionEntitiesOf(_)
mentionEntitiesOf(entities) ==
    IF entities = <<>> THEN <<>>
    ELSE (IF Head(entities).type \in {"mention", "text_mention"}
          THEN <<Head(entities)>> ELSE <<>>) \o mentionEntitiesOf(Tail(entities))

\* the comparison without lower-casing
entityNamesBot_caseSensitive(entity, text, normalizedBot) ==
    IF entity.type = "text_mention" /\ Truthy(entity.username)
    THEN entity.username.v = normalizedBot
    ELSE IF entity.type = "mention"
    THEN stripLeadingAt(slice(text, entity.offset, entity.offset + entity.length))
            = normalizedBot
    ELSE FALSE

\* lines 291-300: the callback of mentionEntities.some
entityNamesBot(entity, text, normalizedBot) ==
    IF entity.type = "text_mention" /\ Truthy(entity.username)
    THEN toLowerCase(entity.username.v) = normalizedBot
    ELSE IF entity.type = "mention"
    THEN stripLeadingAt(toLowerCase(slice(text, entity.offset,
                                          entity.offset + entity.length))) = normalizedBot
    ELSE FALSE

extractMentionInfo(msg, botUsername) ==
    LET entities == orElse(orElse(msg.entities, msg.captionEntities), List(<<>>)).v
        text == orElse(orElse(msg.text, msg.caption), Str(<<>>)).v
        mentionEntities == mentionEntitiesOf(entities)
        hasAnyMention == Len(mentionEntities) > 0
    IN  IF ~Truthy(botUsername)
        THEN [hasAnyMention |-> hasAnyMention, wasMentioned |-> FALSE]
        ELSE LET normalizedBot == stripLeadingAt(toLowerCase(trim(botUsername.v)))
             IN  [hasAnyMention |-> hasAnyMention,
                  wasMentioned |->
                      \E i \in 1..Len(mentionEntities) :
                          entityNamesBot(mentionEntities[i], text, normalizedBot)]

(***************************************************************************)
(* Collaborators of the host runtime, reached through core.channel         *)
(***************************************************************************)
\* a control command is a body that starts with "/"
shouldComputeCommandAuthorized(msg) == startsWith(rawBodyOf(msg), <<"/">>)

hasControlCommand(msg) == startsWith(rawBodyOf(msg), <<"/">>)

isControlCommandMessage(msg) == startsWith(rawBodyOf(msg), <<"/">>)

resolveCommandAuthorizedFromAuthorizers(useAccessGroups, configured, allowed) ==
    IF ~useAccessGroups THEN TRUE ELSE configured /\ allowed

resolveMentionGatingWithBypass(requireMention, wasMentioned, hasAnyMention, p) ==
    LET shouldBypassMention ==
            /\ requireMention /\ ~wasMentioned /\ ~hasAnyMention
            /\ p.allowTextCommands /\ p.commandAuthorized /\ p.hasControlCommand
        effectiveWasMentioned == wasMentioned \/ shouldBypassMention
    IN  [effectiveWasMentioned |-> effectiveWasMentioned,
         shouldSkip |-> requireMention /\ ~effectiveWasMentioned]

\* readAllowFromStore("tgrelay"): the approved ids as strings
RECURSIVE storeEntries(_)
storeEntries(ids) ==
    IF ids = {} THEN <<>>
    ELSE LET m == CHOOSE x \in ids : \A y \in ids : x <= y
         IN  <<Str(NatToString(m))>> \o storeEntries(ids \ {m})

(***************************************************************************)
(* processMessageWithPipeline: the decisions                               *)
(***************************************************************************)
\* lines 315-393: "pass", or the reason the message is dropped before the store is read
checkBeforeStore(config, msg) ==
    LET resolved == resolveGroupConfig(Num(msg.chatId), msg.title, config.groups)
        groupEntry == resolved.entry
        groupUsers == groupUsersOf(config, groupEntry)
        groupPolicy == groupPolicyOf(config)
    IN  IF msg.chatType = "nochat" THEN "nochat"
        ELSE IF config.dmPolicy # "open" /\ senderIsBot(msg) THEN "bot"
        ELSE IF ~hasRawBody(msg) THEN "empty"
        ELSE IF ~isGroupChat(msg) THEN "pass"
        ELSE IF groupPolicy = "disabled" THEN "groupPolicyDisabled"
        ELSE IF groupPolicy = "allowlist" /\ ~resolved.allowlistConfigured THEN "noAllowlist"
        ELSE IF groupPolicy = "allowlist" /\ groupEntry = Undefined THEN "notAllowlisted"
        ELSE IF groupEntry # Undefined
                /\ (groupEntry.enabled = "false" \/ groupEntry.allow = "false")
             THEN "chatDisabled"
        ELSE IF Len(groupUsers) > 0
                /\ ~isSenderAllowed(senderIdOf(msg), senderUsernameOf(msg), groupUsers)
             THEN "senderNotAllowed"
        ELSE "pass"

\* the store read for every message
needsStoreRead_always(config, msg) == TRUE

\* !isGroup && (dmPolicy !== "open" || shouldComputeAuth)
needsStoreRead(config, msg) ==
    ~isGroupChat(msg) /\ (dmPolicyOf(config) # "open" \/ shouldComputeCommandAuthorized(msg))

\* the allow list without the entries of the pairing store
effectiveAllowFrom_configOnly(config, storeAllowFrom) == config.dmAllowFrom

\* [...configAllowFrom, ...storeAllowFrom]
effectiveAllowFrom(config, storeAllowFrom) == config.dmAllowFrom \o storeAllowFrom

\* a mention gate that lets every message through
mentionGateSkips_never(config, msg, commandAuthorized) == FALSE

\* lines 415-438: whether the mention gate drops the group message
mentionGateSkips(config, msg, commandAuthorized) ==
    LET groupEntry == resolveGroupConfig(Num(msg.chatId), msg.title, config.groups).entry
        mentionInfo == extractMentionInfo(msg, config.botUsername)
    IN  resolveMentionGatingWithBypass(
            requireMentionOf(config, groupEntry), mentionInfo.wasMentioned,
            mentionInfo.hasAnyMention,
            [allowTextCommands |-> config.allowTextCommands,
             hasControlCommand |-> hasControlCommand(msg),
             commandAuthorized |-> commandAuthorized]).shouldSkip

\* the verdict with a disabled DM policy treated like the pairing policy
dmVerdict_disabledPairs(dmPolicy, allowed) ==
    IF dmPolicy = "open" THEN "route"
    ELSE IF allowed THEN "route"
    ELSE IF dmPolicy \in {"pairing", "disabled"} THEN "pair"
    ELSE "unauthorized"

\* lines 440-482: what becomes of a private-chat message
dmVerdict(dmPolicy, allowed) ==
    IF dmPolicy = "disabled" THEN "dmDisabled"
    ELSE IF dmPolicy = "open" THEN "route"
    ELSE IF allowed THEN "route"
    ELSE IF dmPolicy = "pairing" THEN "pair"
    ELSE "unauthorized"

\* lines 395-491: "route", "pair", or the reason the message is dropped
decideAfterStore(config, msg, storeAllowFrom) ==
    LET isGroup == isGroupChat(msg)
        groupEntry == resolveGroupConfig(Num(msg.chatId), msg.title, config.groups).entry
        groupUsers == groupUsersOf(config, groupEntry)
        shouldComputeAuth == shouldComputeCommandAuthorized(msg)
        commandAllowFrom ==
            IF isGroup THEN groupUsers ELSE effectiveAllowFrom(config, storeAllowFrom)
        senderAllowedForCommands ==
            isSenderAllowed(senderIdOf(msg), senderUsernameOf(msg), commandAllowFrom)
        commandAuthorized ==
            /\ shouldComputeAuth
            /\ resolveCommandAuthorizedFromAuthorizers(
                   config.useAccessGroups, Len(commandAllowFrom) > 0, senderAllowedForCommands)
    IN  IF isGroup
        THEN IF mentionGateSkips(config, msg, commandAuthorized) THEN "mentionRequired"
             ELSE IF isControlCommandMessage(msg) /\ ~commandAuthorized THEN "controlCommand"
             ELSE "route"
        ELSE dmVerdict(dmPolicyOf(config), senderAllowedForCommands)

(***************************************************************************)
(* createRpcTransformer (telegram/rpc-transformer.ts)                      *)
(* A JavaScript object is the sequence of its <<key, value>> properties in *)
(* insertion order; JSON text is a sequence of characters and tokens.      *)
(***************************************************************************)
DefaultRpcTimeout == 30000

hasKey(obj, key) == \E i \in 1..Len(obj) : obj[i][1] = key

\* obj[key] = value: an existing key keeps its position
setKey(obj, key, value) ==
    IF hasKey(obj, key)
    THEN [i \in 1..Len(obj) |-> IF obj[i][1] = key THEN <<key, value>> ELSE obj[i]]
    ELSE Append(obj, <<key, value>>)

\* { ...target, ...source }
RECURSIVE spread(_, _)
spread(target, source) ==
    IF source = <<>> THEN target
    ELSE spread(setKey(target, Head(source)[1], Head(source)[2]), Tail(source))

jsonValue(value) ==
    IF IsNum(value) THEN String(value) ELSE <<"\"">> \o value.v \o <<"\"">>

RECURSIVE jsonMembers(_)
jsonMembers(obj) ==
    IF obj = <<>> THEN <<>>
    ELSE <<"\"", Head(obj)[1], "\"", ":">> \o jsonValue(Head(obj)[2])
            \o (IF Len(obj) > 1 THEN <<",">> ELSE <<>>) \o jsonMembers(Tail(obj))

\* JSON.stringify of an object of strings and numbers
jsonStringify(obj) == <<"{">> \o jsonMembers(obj) \o <<"}">>

sOkTrue == <<"{", "\"", "ok", "\"", ":", "true", "}">>
sOkFalse == <<"{", "\"", "ok", "\"", ":", "false", "}">>

\* response.json(): the parsed value, or a SyntaxError
jsonParse(text) ==
    IF text = sOkTrue THEN [k |-> "value", v |-> <<<<"ok", "true">>>>]
    ELSE IF text = sOkFalse THEN [k |-> "value", v |-> <<<<"ok", "false">>>>]
    ELSE [k |-> "error", name |-> "SyntaxError", message |-> <<>>]

\* response.ok
responseOk(status) == status >= 200 /\ status <= 299

\* new Error(`RPC HTTP ${response.status}`)
rpcHttpError(status) ==
    [k |-> "error", name |-> "Error", message |-> <<"RPC HTTP ">> \o NatToString(status)]

\* a transformer that sends every method to the RPC URL
isExcluded_never(opts, method) == FALSE

\* excludeMethods.has(method)
isExcluded(opts, method) == method \in opts.excludeMethods

\* lines 32-40: the arguments of fetch
rpcRequest(opts, method, payload) ==
    [url |-> opts.rpcUrl,
     method |-> "POST",
     headers |-> spread(<<<<"Content-Type", "application/json">>>>,
                        IF opts.rpcHeaders = Undefined THEN <<>> ELSE opts.rpcHeaders.v),
     body |-> jsonStringify(spread(<<<<"method", Str(<<method>>)>>>>, payload))]

\* a catch block that rethrows without telling onError
rpcCatch_silent(opts, call, error) ==
    [call EXCEPT !.pc = "thrown", !.error = error, !.timer = "cleared",
                 !.trace = @ \o <<"clearTimeout", "throw">>]

\* lines 47-51: clearTimeout, onError?.(method, error), throw error
rpcCatch(opts, call, error) ==
    [call EXCEPT !.pc = "thrown", !.error = error, !.timer = "cleared",
                 !.onErrors = IF opts.hasOnError
                              THEN Append(@, [method |-> call.method, error |-> error])
                              ELSE @,
                 !.trace = @ \o (IF opts.hasOnError
                                  THEN <<"clearTimeout", "onError", "throw">>
                                  ELSE <<"clearTimeout", "throw">>)]

(***************************************************************************)
(* processPayloadForRpc (the payload pre-pass of telegram/webhook.ts)      *)
(* An InputFile is a record of where its data comes from, the bytes that   *)
(* reading it yields and its filename; objects and arrays are tagged.      *)
(***************************************************************************)
File(source, bytes, filename) ==
    [k |-> "file", source |-> source, bytes |-> bytes, filename |-> filename]

Obj(properties) == [k |-> "object", v |-> properties]

Arr(items) == [k |-> "array", v |-> items]

IsError(r) == r.k = "error"

Base64Alphabet ==
    <<"A", "B", "C", "D", "E", "F", "G", "H", "I", "J", "K", "L", "M", "N", "O", "P",
      "Q", "R", "S", "T", "U", "V", "W", "X", "Y", "Z", "a", "b", "c", "d", "e", "f",
      "g", "h", "i", "j", "k", "l", "m", "n", "o", "p", "q", "r", "s", "t", "u", "v",
      "w", "x", "y", "z", "0", "1", "2", "3", "4", "5", "6", "7", "8", "9", "+", "/">>

base64Char(sextet) == Base64Alphabet[sextet + 1]

\* buffer.toString("base64")
RECURSIVE base64(_)
base64(bytes) ==
    IF bytes = <<>> THEN <<>>
    ELSE IF Len(bytes) = 1
    THEN <<base64Char(bytes[1] \div 4), base64Char((bytes[1] % 4) * 16), "=", "=">>
    ELSE IF Len(bytes) = 2
    THEN <<base64Char(bytes[1] \div 4),
           base64Char((bytes[1] % 4) * 16 + bytes[2] \div 16),
           base64Char((bytes[2] % 16) * 4), "=">>
    ELSE <<base64Char(bytes[1] \div 4),
           base64Char((bytes[1] % 4) * 16 + bytes[2] \div 16),
           base64Char((bytes[2] % 16) * 4 + bytes[3] \div 64),
           base64Char(bytes[3] % 64)>> \o base64(SubSeq(bytes, 4, Len(bytes)))

\* lines 248-279: the { base64, filename } of an InputFile, or the Error thrown
\* for a fileData that is no buffer, path or URL
inputFileToFileData(inputFile) ==
    IF inputFile.source \in {"buffer", "path", "url"}
    THEN Obj(<<<<"base64", Str(base64(inputFile.bytes))>>,
               <<"filename", inputFile.filename>>>>)
    ELSE [k |-> "error", name |-> "Error",
          message |-> <<"Unsupported InputFile data type for RPC: ", inputFile.source>>]

IndexNames == <<"0", "1", "2", "3">>

\* Object.entries(value): of an array, its items under their indices
entriesOf(value) ==
    IF value.k = "array"
    THEN [i \in 1..Len(value.v) |-> <<IndexNames[i], value.v[i]>>]
    ELSE value.v

\* lines 293-295: result.file_data = ...; result[key] = "file_data"
storeFileData(result, key, fileData) ==
    setKey(setKey(result, "file_data", fileData), key, Str(<<"file_data">>))

RECURSIVE processPayloadForRpc(_)
RECURSIVE processEntries(_, _)

\* lines 299-307: the callback of value.map
processItem(item) ==
    IF item.k = "file"
    THEN LET fileData == inputFileToFileData(item)
         IN  IF IsError(fileData) THEN fileData ELSE Obj(<<<<"file_data", fileData>>>>)
    ELSE IF item.k \in {"object", "array"} THEN processPayloadForRpc(entriesOf(item))
    ELSE item

\* lines 298-308: await Promise.all(value.map(...)); the items of the drawn
\* payloads fail with the same error, so the first in order stands for any
processItems(items) ==
    LET done == [i \in 1..Len(items) |-> processItem(items[i])]
        failed == {i \in 1..Len(items) : IsError(done[i])}
    IN  IF failed # {} THEN done[CHOOSE i \in failed : \A j \in failed : i <= j]
        ELSE Arr(done)

\* lines 290-315: the loop over Object.entries(payload), result so far given
processEntries(entries, result) ==
    IF entries = <<>> THEN Obj(result)
    ELSE LET key == Head(entries)[1]
             value == Head(entries)[2]
             processed ==
                 IF value.k = "file" THEN inputFileToFileData(value)
                 ELSE IF value.k = "array" THEN processItems(value.v)
                 ELSE IF value.k = "object" THEN processPayloadForRpc(value.v)
                 ELSE value
         IN  IF IsError(processed) THEN processed
             ELSE processEntries(Tail(entries),
                      IF value.k = "file" THEN storeFileData(result, key, processed)
                      ELSE setKey(result, key, processed))

\* lines 285-318
processPayloadForRpc(payload) == processEntries(payload, <<>>)

(***************************************************************************)
(* startTelegramWebhook (telegram/webhook.ts)                              *)
(***************************************************************************)
WEBHOOK_INIT_MAX_RETRIES == 10

\* String.prototype.includes
includes(s, sub) == \E i \in 1..(Len(s) - Len(sub) + 1) : SubSeq(s, i, i + Len(sub) - 1) = sub

sRpcHttp == <<"R", "P", "C", " ", "H", "T", "T", "P">>

\* line 94
isRpcError(errMsg) == includes(errMsg, sRpcHttp)

\* a loop that gives up at the attempt ceiling only
givesUp_onlyAtCeiling(isRecoverable, rpcError, initAttempts) == initAttempts >= WEBHOOK_INIT_MAX_RETRIES

\* line 96: (!isRecoverable && !isRpcError) || initAttempts >= WEBHOOK_INIT_MAX_RETRIES
givesUp(isRecoverable, rpcError, initAttempts) ==
    (~isRecoverable /\ ~rpcError) \/ initAttempts >= WEBHOOK_INIT_MAX_RETRIES

\* lines 88-118 up to the await of sleepWithAbort: the catch block of one attempt
onInitFailed(st, err) ==
    LET initAttempts == st.initAttempts + 1
        counted == [st EXCEPT !.initAttempts = initAttempts, !.lastErr = err]
    IN  IF givesUp(err.recoverable, isRpcError(err.formatted), initAttempts)
        THEN [counted EXCEPT !.pc = "failed",
                             !.error = [kind |-> "init", message |-> err.formatted],
                             !.gaveUpLogged = (initAttempts >= WEBHOOK_INIT_MAX_RETRIES)]
        ELSE [counted EXCEPT !.pc = "sleeping", !.sleeps = @ + 1]

sAbortedDuringInitRetry ==
    <<"a", "b", "o", "r", "t", "e", "d", " ", "d", "u", "r", "i", "n", "g", " ",
      "i", "n", "i", "t", " ", "r", "e", "t", "r", "y">>

\* a catch block that rethrows whatever the sleep rejected with
onSleepRejected_rethrow(st, sleepErr) ==
    [st EXCEPT !.pc = "failed", !.error = [kind |-> "sleep", message |-> sleepErr]]

\* lines 112-117: the catch block around sleepWithAbort
onSleepRejected(st, sleepErr) ==
    IF st.hasSignal /\ st.signalAborted
    THEN [st EXCEPT !.pc = "failed",
                    !.error = [kind |-> "aborted", message |-> sAbortedDuringInitRetry,
                               cause |-> sleepErr]]
    ELSE [st EXCEPT !.pc = "failed", !.error = [kind |-> "sleep", message |-> sleepErr]]

\* lines 219-225: shutdown
shutdown(st) == [st EXCEPT !.listening = FALSE, !.closed = TRUE, !.botStopped = TRUE]

(***************************************************************************)
(* sendToOutbound, sendTgrelayText, sendTgrelayMedia (tgrelay/src/api.ts)  *)
(***************************************************************************)
Null == [k |-> "null"]

\* a body whose read fails, and the outcome of response.json() on text that is
\* not JSON
Unreadable == [k |-> "unreadable"]
NotJson == [k |-> "notjson"]

Bool(b) == [k |-> "bool", v |-> b]

IsNullish(x) == x.k \in {"undefined", "null"}

\* x.key of a value that is not nullish
get(x, key) ==
    IF x.k = "object" /\ hasKey(x.v, key)
    THEN x.v[CHOOSE i \in 1..Len(x.v) : x.v[i][1] = key][2]
    ELSE Undefined

\* x?.key
optGet(x, key) == IF IsNullish(x) THEN Undefined ELSE get(x, key)

\* x?.toString()
optToString(x) ==
    IF IsNullish(x) THEN Undefined
    ELSE IF x.k \in {"num", "str"} THEN Str(String(x))
    ELSE IF x.k = "bool" THEN Str(IF x.v THEN <<"true">> ELSE <<"false">>)
    ELSE Str(<<"[object Object]">>)

\* a ?? b
coalesce(a, b) == IF IsNullish(a) THEN b ELSE a

RECURSIVE definedProperties(_)
\* what JSON.stringify keeps of an object: the properties that are not undefined
definedProperties(obj) ==
    IF obj = <<>> THEN <<>>
    ELSE (IF Head(obj)[2] = Undefined THEN <<>> ELSE <<Head(obj)>>)
            \o definedProperties(Tail(obj))

sNotConfigured == <<"outboundUrl not configured for tgrelay account">>

SendFailure(error) ==
    [k |-> "result", ok |-> FALSE, messageId |-> Undefined, chatId |-> Undefined,
     error |-> Str(error)]

\* a thrown value: an Error with its message, or another value with its String()
Thrown(isError, text) == [k |-> "error", isError |-> isError, text |-> text]

\* a send whose failures reach the caller
settleSend_rethrow(call, outcome) ==
    IF outcome.k = "error" THEN [call EXCEPT !.pc = "thrown", !.error = outcome]
    ELSE [call EXCEPT !.pc = "returned", !.result = outcome]

\* lines 88-95: catch (err): errorMsg = err instanceof Error ? err.message :
\* String(err); a value that was returned is the result
settleSend(call, outcome) ==
    IF outcome.k = "error"
    THEN [call EXCEPT !.pc = "returned", !.result = SendFailure(outcome.text),
                      !.log = Append(@, "tgrelay outbound error")]
    ELSE [call EXCEPT !.pc = "returned", !.result = outcome]

\* lines 36-59: sendToOutbound up to the await of fetch
sendToOutbound(call, account, payload) ==
    IF ~Truthy(account.outboundUrl)
    THEN [call EXCEPT !.pc = "returned", !.payload = payload,
                      !.result = SendFailure(sNotConfigured)]
    ELSE [call EXCEPT !.pc = "fetching", !.payload = payload,
                      !.fetches = Append(@,
                          [url |-> account.outboundUrl.v, method |-> "POST",
                           headers |-> spread(<<<<"Content-Type", "application/json">>>>,
                                              IF account.outboundHeaders = Undefined
                                              THEN <<>> ELSE account.outboundHeaders.v),
                           body |-> definedProperties(payload),
                           signal |-> "none"])]

\* lines 62-67: `HTTP ${response.status}: ${errorText}`
httpFailure(status, body) ==
    LET errorText == IF body.text = Unreadable THEN <<"unknown error">> ELSE body.text.v
    IN  SendFailure(<<"HTTP ">> \o NatToString(status) \o <<": ">> \o errorText)

sCannotReadNull == <<"Cannot read properties of null (reading 'result')">>

\* lines 78-79
messageIdOf(result) ==
    coalesce(optToString(optGet(get(result, "result"), "message_id")),
             coalesce(optToString(get(result, "message_id")), Undefined))

\* lines 80-81
chatIdOf(result, payload) ==
    coalesce(optToString(optGet(optGet(get(result, "result"), "chat"), "id")),
             coalesce(optToString(get(result, "chat_id")),
                      Str(String(get(Obj(payload), "chat_id")))))

\* lines 70-87: response.json().catch(() => ({})), then the result; reading
\* result.result of null throws a TypeError
successOf(body, payload) ==
    LET result == IF body.json = NotJson THEN Obj(<<>>) ELSE body.json
    IN  IF result = Null THEN Thrown(TRUE, sCannotReadNull)
        ELSE [k |-> "result", ok |-> TRUE, messageId |-> messageIdOf(result),
              chatId |-> chatIdOf(result, payload), error |-> Undefined]

\* lines 99-107
textPayload(params) ==
    <<<<"method", Str(<<"sendMessage">>)>>,
      <<"chat_id", params.chatId>>,
      <<"text", params.text>>,
      <<"parse_mode", coalesce(params.parseMode, Str(<<"HTML">>))>>,
      <<"reply_to_message_id", params.replyToMessageId>>,
      <<"message_thread_id", Undefined>>,
      <<"disable_notification", Undefined>>>>

\* lines 113-119: methodMap[params.mediaType] ?? "sendDocument"
mediaMethod(mediaType) ==
    CASE mediaType = "photo" -> "sendPhoto"
      [] mediaType = "document" -> "sendDocument"
      [] mediaType = "audio" -> "sendAudio"
      [] mediaType = "video" -> "sendVideo"
      [] mediaType = "voice" -> "sendVoice"
      [] OTHER -> "sendDocument"

\* line 122
isLocalFile(mediaUrl) == startsWith(mediaUrl, <<"/">>) \/ startsWith(mediaUrl, <<".", "/">>)

RECURSIVE lastIndexOf(_, _)
lastIndexOf(s, c) ==
    IF s = <<>> THEN 0
    ELSE IF s[Len(s)] = c THEN Len(s) ELSE lastIndexOf(SubSeq(s, 1, Len(s) - 1), c)

\* path.basename
basename(p) == SubSeq(p, lastIndexOf(p, "/") + 1, Len(p))

\* path.extname of a name with a dot after its first character
extname(p) ==
    LET base == basename(p)
        dot == lastIndexOf(base, ".")
    IN  IF dot <= 1 THEN <<>> ELSE SubSeq(base, dot, Len(base))

\* lines 133-143: mimeMap[ext]
mimeOf(ext) ==
    CASE ext = <<".", "p", "n", "g">> -> Str(<<"image/png">>)
      [] ext = <<".", "j", "p", "g">> -> Str(<<"image/jpeg">>)
      [] ext = <<".", "p", "d", "f">> -> Str(<<"application/pdf">>)
      [] ext = <<".", "m", "p", "4">> -> Str(<<"video/mp4">>)
      [] OTHER -> Undefined

mediaCommon(params) ==
    <<<<"method", Str(<<mediaMethod(params.mediaType)>>)>>,
      <<"chat_id", params.chatId>>,
      <<"caption", params.caption>>,
      <<"parse_mode", coalesce(params.parseMode, Str(<<"HTML">>))>>,
      <<"reply_to_message_id", params.replyToMessageId>>,
      <<"message_thread_id", Undefined>>,
      <<"disable_notification", Undefined>>>>

\* lines 145-158
localMediaPayload(params, bytes) ==
    Append(mediaCommon(params),
           <<"file_data", Obj(<<<<"base64", Str(base64(bytes))>>,
                               <<"filename", Str(basename(params.mediaUrl))>>,
                               <<"mime_type", mimeOf(toLowerCase(extname(params.mediaUrl)))>>>>)>>)

\* lines 169-178
remoteMediaPayload(params) ==
    setKey(mediaCommon(params), params.mediaType, Str(params.mediaUrl))

(***************************************************************************)
(* Account resolution (accounts.ts)                                        *)
(***************************************************************************)
DEFAULT_ACCOUNT_ID == <<"default">>

\* normalizeAccountId of the plugin SDK: a missing or blank id is the default
\* account's, any other id is trimmed and lower-cased
normalizeAccountId(accountId) ==
    IF accountId = Undefined \/ trim(accountId.v) = <<>> THEN DEFAULT_ACCOUNT_ID
    ELSE toLowerCase(trim(accountId.v))

\* the ids the drawn configurations use, in localeCompare order
AccountIdOrder == <<<<"bot1">>, <<"bot2">>, DEFAULT_ACCOUNT_ID>>

\* lines 15-21: Object.keys(accounts).filter(Boolean); channel.accounts is a
\* function from account ids to account sections
listConfiguredAccountIds(channel) == DOMAIN channel.accounts \ {<<>>}

IsConfiguredId(channel, id) == id \in listConfiguredAccountIds(channel)

\* lines 23-29
listTgrelayAccountIds(channel) ==
    IF listConfiguredAccountIds(channel) = {} THEN <<DEFAULT_ACCOUNT_ID>>
    ELSE SelectSeq(AccountIdOrder, LAMBDA id : IsConfiguredId(channel, id))

EmptySection == [webhookPath |-> Undefined, enabled |-> Undefined, outboundUrl |-> Undefined]

\* lines 43-52
resolveAccountConfig(channel, accountId) ==
    IF accountId \in DOMAIN channel.accounts THEN channel.accounts[accountId] ELSE Undefined

\* lines 54-59: {...base, ...account}; a property absent from the account's
\* section keeps the channel's value
mergeTgrelayAccountConfig(channel, accountId) ==
    LET section == resolveAccountConfig(channel, accountId)
        account == IF section = Undefined THEN EmptySection ELSE section
    IN  [key \in DOMAIN EmptySection |->
            IF account[key] # Undefined THEN account[key] ELSE channel.base[key]]

\* x?.trim() || fallback, for an optional string
trimmedOr(x, fallback) ==
    IF x # Undefined /\ trim(x.v) # <<>> THEN Str(trim(x.v)) ELSE fallback

sDefaultWebhookPath == <<"/", "t", "g", "r", "e", "l", "a", "y">>

\* line 73
derivedWebhookPath(accountId) ==
    IF accountId = DEFAULT_ACCOUNT_ID THEN sDefaultWebhookPath
    ELSE sDefaultWebhookPath \o <<"/">> \o accountId

\* every account on the default account's path
resolveTgrelayAccount_onePath(channel, rawAccountId) ==
    [accountId |-> normalizeAccountId(rawAccountId),
     enabled |-> TRUE,
     webhookPath |-> sDefaultWebhookPath,
     outboundUrl |-> Undefined]

\* lines 61-84
resolveTgrelayAccount(channel, rawAccountId) ==
    LET accountId == normalizeAccountId(rawAccountId)
        baseEnabled == channel.base.enabled # Bool(FALSE)
        merged == mergeTgrelayAccountConfig(channel, accountId)
        accountEnabled == merged.enabled # Bool(FALSE)
    IN  [accountId |-> accountId,
         enabled |-> baseEnabled /\ accountEnabled,
         webhookPath |-> trimmedOr(merged.webhookPath, Str(derivedWebhookPath(accountId))).v,
         outboundUrl |-> trimmedOr(merged.outboundUrl, Undefined)]

(***************************************************************************)
(* The pairing approval notification (tgrelayPlugin.pairing)               *)
(***************************************************************************)
DigitValue(c) ==
    CASE c = "0" -> 0 [] c = "1" -> 1 [] c = "2" -> 2 [] c = "3" -> 3 [] c = "4" -> 4
      [] c = "5" -> 5 [] c = "6" -> 6 [] c = "7" -> 7 [] c = "8" -> 8 [] c = "9" -> 9
      [] OTHER -> -1

AllDigits(s) == s # <<>> /\ \A i \in 1..Len(s) : DigitValue(s[i]) >= 0

RECURSIVE digitsValue(_)
digitsValue(s) ==
    IF s = <<>> THEN 0 ELSE 10 * digitsValue(SubSeq(s, 1, Len(s) - 1)) + DigitValue(s[Len(s)])

NaN == [k |-> "nan"]

\* Number(s) for a string of white space, an optional sign and decimal digits
Number(s) ==
    LET t == trim(s)
        signed == t # <<>> /\ Head(t) \in {"-", "+"}
        digits == IF signed THEN Tail(t) ELSE t
    IN  IF t = <<>> THEN Num(0)
        ELSE IF ~AllDigits(digits) THEN NaN
        ELSE IF signed /\ Head(t) = "-" THEN Num(-digitsValue(digits))
        ELSE Num(digitsValue(digits))

\* line 85: Number(id) || id
chatIdOfApproval_alwaysString(id) == Str(id)

chatIdOfApproval(id) ==
    IF Number(id) = NaN \/ Number(id) = Num(0) THEN Str(id) ELSE Number(id)

PAIRING_APPROVED_MESSAGE == <<"PAIRING_APPROVED_MESSAGE">>

\* lines 80-91 up to the await of sendTgrelayText
notifyApproval(call, channel, id) ==
    LET account == resolveTgrelayAccount(channel, Undefined)
    IN  IF account.outboundUrl = Undefined
        THEN [call EXCEPT !.pc = "returned", !.id = id]
        ELSE [call EXCEPT !.pc = "sending", !.id = id,
                          !.sends = Append(call.sends,
                                           [account |-> account,
                                            chatId |-> chatIdOfApproval(id),
                                            text |-> PAIRING_APPROVED_MESSAGE])]

(***************************************************************************)
(* deliverTgrelayReply                                                     *)
(***************************************************************************)
\* lines 601-605
mediaListOf(payload) ==
    IF payload.mediaUrls # Undefined /\ Len(payload.mediaUrls.v) > 0 THEN payload.mediaUrls.v
    ELSE IF Truthy(payload.mediaUrl) THEN <<payload.mediaUrl.v>>
    ELSE <<>>

\* payload.replyToId ? Number(payload.replyToId) : undefined
replyToMessageIdOf(payload) ==
    IF Truthy(payload.replyToId) THEN Number(payload.replyToId.v) ELSE Undefined

\* the calls deliverTgrelayReply makes if every one of them is reached, in
\* order: one sendTgrelayMedia per media URL (the text is the caption of the
\* first), or else one sendTgrelayText per chunk of the text
plannedSends(payload, chunks) ==
    LET mediaList == mediaListOf(payload)
    IN  IF Len(mediaList) > 0
        THEN [i \in 1..Len(mediaList) |->
                [fn |-> "sendTgrelayMedia", content |-> mediaList[i],
                 caption |-> IF i = 1 THEN payload.text ELSE Undefined,
                 replyToMessageId |-> replyToMessageIdOf(payload)]]
        ELSE IF Truthy(payload.text)
        THEN [i \in 1..Len(chunks) |->
                [fn |-> "sendTgrelayText", content |-> chunks[i],
                 caption |-> Undefined,
                 replyToMessageId |-> replyToMessageIdOf(payload)]]
        ELSE <<>>

\* the loop from one iteration's start to its await, or to the return
startSend(d) ==
    IF d.next > Len(d.planned) THEN [d EXCEPT !.pc = "returned"]
    ELSE [d EXCEPT !.pc = "sending",
                   !.sends = Append(d.sends, [call |-> d.planned[d.next],
                                              outcome |-> "pending"])]

\* a loop that ends at the first send that did not succeed
onSendSettled_stopAtFailure(d, outcome) ==
    LET settled == [d EXCEPT !.sends[Len(d.sends)].outcome = outcome,
                             !.next = d.next + 1]
    IN  IF outcome = "ok" THEN startSend([settled EXCEPT !.statusSinks = d.statusSinks + 1])
        ELSE [settled EXCEPT !.pc = "returned"]

\* lines 609-624, 634-647: the awaited send settles; a result, ok or not, is
\* followed by statusSink, a rejection is caught and logged; then the loop
\* goes on
onSendSettled(d, outcome) ==
    LET settled == [d EXCEPT !.sends[Len(d.sends)].outcome = outcome,
                             !.next = d.next + 1]
    IN  IF outcome = "threw"
        THEN startSend([settled EXCEPT !.errors = d.errors + 1])
        ELSE startSend([settled EXCEPT !.statusSinks = d.statusSinks + 1])

(***************************************************************************)
(* src/browser/control-service.ts: the browser control service             *)
(***************************************************************************)
\* lines 58-63: the module's state once a server listens
ServerState(id) == [k |-> "state", server |-> id]

\* the for loop of lines 67-75: the next profile at or after position i whose
\* driver is "extension", 0 when there is none
nextExtension(profiles, i) ==
    LET later == {j \in i..Len(profiles) : profiles[j] = "extension"}
    IN  IF later = {} THEN 0 ELSE CHOOSE j \in later : \A m \in later : j <= m

\* lines 67-78 from position i of the profile loop: await the relay of the
\* next extension profile, or return the module's state as it is now
continueStart(b, c, i) ==
    LET j == nextExtension(b.resolved.profiles, i)
    IN  IF j # 0
        THEN [b EXCEPT !.calls[c].pc = "awaitRelay", !.calls[c].i = j]
        ELSE [b EXCEPT !.calls[c].pc = "returned", !.calls[c].result = b.state]

\* lines 104-108: server.close() releases the port at once, its callback
\* comes later
closeServer(b, c) ==
    [b EXCEPT !.listening = @ \ {b.calls[c].current.server},
              !.calls[c].pc = "awaitClose"]

(***************************************************************************)
(* Inputs of the pure functions                                            *)
(***************************************************************************)
MaxAllowLen == 2

sBob == <<"B", "o", "b">>
sbob == <<"b", "o", "b">>
sAtBob == <<"@", "b", "o", "b">>
sStar == <<"*">>
s555 == <<"5", "5", "5">>

AllowSenderIds == {Num(555), Num(7)}

AllowUsernames ==
    {Undefined, Str(sbob), Str(sBob), Str(sAtBob), Str(<<" ", "b", "o", "b">>),
     Str(<<"b", "o">>), Str(<<>>)}

AllowEntries ==
    {Str(sBob), Str(sbob), Str(sAtBob), Str(<<" ", "B", "O", "B", " ">>),
     Str(<<"@", "@", "b", "o", "b">>), Str(<<"@", " ", "b", "o", "b">>),
     Str(sStar), Str(<<" ", "*">>), Str(<<>>), Str(<<" ">>), Str(<<"@">>),
     Num(555), Str(s555), Str(<<" ", "5", "5", "5">>),
     Str(pfxTgrelay \o s555), Str(<<"T", "G", "-", "R", "e", "l", "a", "y", ":">> \o s555),
     Str(pfxTelegramRelay \o s555), Str(<<"@">> \o pfxTgrelay \o s555),
     Str(pfxTgrelay \o sbob), Str(pfxTgrelay), Str(<<"5", "5">>), Str(<<"b", "o">>)}

AllowLists == UNION {[1..n -> AllowEntries] : n \in 0..MaxAllowLen}

sA == <<"a">>
sB == <<"b">>

VerifySecrets == {Undefined, Str(<<>>), Str(sA), Str(sB)}

VerifyHeaders == {Undefined, Str(<<>>), Str(sA), Str(sB), Str(sBearerSp \o sA)}

VerifyAuths ==
    {Undefined, Str(<<>>), Str(sA), Str(sBearerSp \o sA), Str(sBearerSp \o sB),
     Str(<<"b", "e", "a", "r", "e", "r", " ", "a">>), Str(sBearerSp \o <<" ", "a">>),
     Str(sBearerSp)}

VerifyRequests ==
    [header : VerifyHeaders, query : VerifyHeaders, authorization : VerifyAuths]

(***************************************************************************)
(* Inputs of the webhook router                                            *)
(***************************************************************************)
MaxRegistrations == 2

RawTargetPaths == {<<"t">>, <<"/", "u", "/">>}

TargetSecrets == {Undefined, Str(sA), Str(sB)}

RequestPathnames == {<<"/", "t", "/">>, <<"/", "u">>, <<"/", "x">>}

RequestMethods == {"POST", "GET"}

NoCredential == [header |-> Undefined, query |-> Undefined, authorization |-> Undefined]

RequestCredentials ==
    {NoCredential,
     [NoCredential EXCEPT !.header = Str(sA)],
     [NoCredential EXCEPT !.query = Str(sB)],
     [NoCredential EXCEPT !.authorization = Str(sBearerSp \o sA)],
     [NoCredential EXCEPT !.authorization = Str(sA)],
     [NoCredential EXCEPT !.header = Str(<<"c">>)]}

SmallBodyContents ==
    {"blank", "malformed", "streamError", "null", "number", "array",
     "objectNoId", "objectStringId", "update", "updateNoMessage"}

RequestBodies ==
    {[len |-> 0, content |-> "empty"]}
        \cup [len : {2}, content : SmallBodyContents]
        \cup [len : {MaxBodyBytes, MaxBodyBytes + 1}, content : {"update", "malformed"}]

NoBody == [len |-> 0, content |-> "unread"]

IdleRequest ==
    [pc |-> "idle", pathname |-> <<>>, method |-> "none", cred |-> NoCredential,
     body |-> NoBody, targets |-> <<>>, res |-> FreshResponse, returned |-> "none",
     dispatched |-> <<>>, lastInbound |-> <<>>, task |-> "none", errors |-> <<>>]

(***************************************************************************)
(* Inputs of message processing                                            *)
(***************************************************************************)
MaxTasks == 2
MaxReplies == 1
MaxApprovals == 1

SenderIds == {555, 7}

sDev == <<"D", "e", "v">>
sChat10 == <<"-", "1", "0">>
sUrl == <<"h", "t", "t", "p">>

NoEntryFields ==
    [enabled |-> "unset", allow |-> "unset", requireMention |-> "unset",
     users |-> Undefined, systemPrompt |-> Undefined]

NoGroups == <<>>

GroupsOf(key, entry) == [k \in {key} |-> entry]

GroupsOf2(key1, entry1, key2, entry2) ==
    [k \in {key1, key2} |-> IF k = key1 THEN entry1 ELSE entry2]

BaseConfig ==
    [dmPolicy |-> "unset", dmAllowFrom |-> <<>>, groupPolicy |-> "unset",
     defaultGroupPolicy |-> "unset", groups |-> NoGroups, groupAllowFrom |-> Undefined,
     requireMention |-> "unset", botUsername |-> Str(<<"@", "m", "y", "b", "o", "t">>),
     allowTextCommands |-> TRUE, useAccessGroups |-> TRUE, outboundUrl |-> Str(sUrl)]

GroupSetups ==
    {BaseConfig,
     [BaseConfig EXCEPT !.groupPolicy = "disabled",
                        !.groups = GroupsOf(sChat10, NoEntryFields)],
     [BaseConfig EXCEPT !.groupPolicy = "open"],
     [BaseConfig EXCEPT !.defaultGroupPolicy = "open", !.requireMention = "false",
                        !.botUsername = Undefined],
     [BaseConfig EXCEPT !.groupPolicy = "allowlist",
                        !.groups = GroupsOf(sChat10, NoEntryFields),
                        !.groupAllowFrom = List(<<Num(7)>>)],
     [BaseConfig EXCEPT !.groups =
         GroupsOf2(<<"*">>, [NoEntryFields EXCEPT !.requireMention = "false"],
                   sChat10, [NoEntryFields EXCEPT !.enabled = "false"])],
     [BaseConfig EXCEPT !.groupPolicy = "open",
                        !.groups = GroupsOf(<<"d", "e", "v">>,
                            [NoEntryFields EXCEPT !.users = List(<<Str(sAtBob)>>),
                                                  !.requireMention = "false"])],
     [BaseConfig EXCEPT !.defaultGroupPolicy = "disabled",
                        !.groups = GroupsOf(<<"*">>,
                            [NoEntryFields EXCEPT !.requireMention = "false"])],
     [BaseConfig EXCEPT !.groupPolicy = "allowlist",
                        !.groups = GroupsOf(<<"d", "e", "v">>,
                            [NoEntryFields EXCEPT !.requireMention = "false"])],
     [BaseConfig EXCEPT !.groupPolicy = "open",
                        !.groups = GroupsOf(sChat10,
                            [NoEntryFields EXCEPT !.users = List(<<>>),
                                                  !.requireMention = "false"]),
                        !.groupAllowFrom = List(<<Num(7)>>)]}

DmPolicies == {"unset", "open", "allowlist", "pairing", "disabled"}

DmAllowLists == {<<>>, <<Num(7)>>}

OutboundUrls == {Str(sUrl), Undefined}

PipelineConfigs ==
    {[g EXCEPT !.dmPolicy = p, !.dmAllowFrom = a, !.outboundUrl = u] :
        g \in GroupSetups, p \in DmPolicies, a \in DmAllowLists, u \in OutboundUrls}

PairingConfigs ==
    {[BaseConfig EXCEPT !.dmAllowFrom = <<Num(7)>>],
     [BaseConfig EXCEPT !.dmPolicy = "pairing", !.dmAllowFrom = <<Num(7)>>,
                        !.outboundUrl = Undefined]}

UserOf(id) ==
    [id |-> id, username |-> IF id = 555 THEN Str(sbob) ELSE Undefined, isBot |-> FALSE]

sHi == <<"h", "i">>
sNew == <<"/", "n", "e", "w">>
sAtMyBot == <<"@", "M", "y", "B", "o", "t">>

MentionEntity(offset, length) ==
    [type |-> "mention", offset |-> offset, length |-> length, username |-> Undefined]

\* the text and entities of a body (plain, command, empty) that mentions nobody,
\* another user or the bot
TextOf(body, mention) ==
    LET base == CASE body = "plain" -> sHi [] body = "command" -> sNew [] OTHER -> <<" ">>
        name == IF mention = "bot" THEN sAtMyBot ELSE sAtBob
    IN  IF mention = "none" \/ body = "empty"
        THEN [text |-> Str(base), entities |-> Undefined]
        ELSE [text |-> Str(base \o <<" ">> \o name),
              entities |-> List(<<MentionEntity(Len(base) + 1, Len(name))>>)]

\* a message with an attachment; its caption, if any, mentions the bot
MediaOf(mention) ==
    IF mention = "none"
    THEN [caption |-> Undefined, captionEntities |-> Undefined]
    ELSE [caption |-> Str(sAtMyBot),
          captionEntities |-> List(<<MentionEntity(0, Len(sAtMyBot))>>)]

Message(chatType, chatId, title, from, body, mention) ==
    [chatType |-> chatType, chatId |-> chatId, title |-> title, from |-> from,
     text |-> IF body = "media" THEN Undefined ELSE TextOf(body, mention).text,
     entities |-> IF body = "media" THEN Undefined ELSE TextOf(body, mention).entities,
     caption |-> IF body = "media" THEN MediaOf(mention).caption ELSE Undefined,
     captionEntities |->
         IF body = "media" THEN MediaOf(mention).captionEntities ELSE Undefined,
     hasMedia |-> body = "media"]

DirectMessage(id, body) == Message("private", id, Undefined, UserOf(id), body, "none")

DirectMessages ==
    {DirectMessage(555, "plain"), DirectMessage(555, "command"), DirectMessage(555, "empty"),
     DirectMessage(7, "plain"),
     [DirectMessage(555, "plain") EXCEPT !.from.isBot = TRUE]}

PairingMessages ==
    {DirectMessage(555, "plain"), DirectMessage(555, "empty"), DirectMessage(7, "plain"),
     [DirectMessage(555, "plain") EXCEPT !.from.isBot = TRUE]}

GroupMessages ==
    {Message("group", -10, Undefined, UserOf(id), body, mention) :
        id \in {555, 7}, body \in {"plain", "command"}, mention \in {"none", "other", "bot"}}
    \cup
    {Message("supergroup", -20, Str(sDev), UserOf(id), body, mention) :
        id \in {555, 7}, body \in {"plain", "media"}, mention \in {"none", "bot"}}
    \cup
    {Message("channel", -20, Str(sDev), Undefined, "plain", mention) :
        mention \in {"none", "bot"}}
    \cup
    {Message("group", -10, Undefined, [UserOf(555) EXCEPT !.isBot = TRUE], "plain", "bot")}
    \cup
    \* a chat whose title is the id of another chat
    {Message("supergroup", -20, Str(sChat10), UserOf(7), "plain", "bot")}

NoChatMessage == [DirectMessage(555, "plain") EXCEPT !.chatType = "nochat"]

AllMessages == DirectMessages \cup GroupMessages \cup {NoChatMessage}

IdleTask ==
    [pc |-> "idle", msg |-> NoChatMessage, storeReads |-> 0, storeAllowFrom |-> <<>>,
     verdict |-> "none", upserts |-> 0, created |-> FALSE, routed |-> FALSE,
     sendCalls |-> <<>>, outbound |-> <<>>, statusOutbound |-> 0, deliveries |-> 0,
     failed |-> FALSE, storeReadFailed |-> FALSE]

(***************************************************************************)
(* Inputs of the group configuration resolver                              *)
(***************************************************************************)
WildcardEntry ==
    [enabled |-> "false", allow |-> "unset", requireMention |-> "false",
     users |-> List(<<Num(7)>>), systemPrompt |-> Str(<<"W">>)]

ExactEntries ==
    {NoEntryFields,
     [enabled |-> "true", allow |-> "unset", requireMention |-> "true",
      users |-> List(<<Num(555)>>), systemPrompt |-> Str(<<" ", "X", " ">>)],
     [NoEntryFields EXCEPT !.allow = "false", !.systemPrompt = Str(<<" ">>)]}

GroupKeys == {sChat10, sDev, <<"d", "e", "v">>, <<"*">>}

GroupConfigs ==
    UNION {{groups \in [keys -> ExactEntries \cup {WildcardEntry}] :
               \A key \in keys : (groups[key] = WildcardEntry) <=> (key = <<"*">>)} :
           keys \in SUBSET GroupKeys}

GroupNames == {Undefined, Str(sDev), Str(<<" ", "D", "E", "V", " ">>), Str(<<"*">>)}

ResolverInputs ==
    [groupId : {Num(-10), Num(-20)}, groupName : GroupNames, groups : GroupConfigs,
     requireMention : {"unset", "false"},
     groupAllowFrom : {Undefined, List(<<Num(555)>>)}]

(***************************************************************************)
(* Inputs of the mention extractor                                         *)
(***************************************************************************)
MaxEntities == 2

sHelloAtMybot == <<"h", "e", "l", "l", "o", " ", "@", "m", "y", "b", "o", "t">>
sHiAtMyBot == sHi \o <<" ">> \o sAtMyBot
sHiAtBob == sHi \o <<" ">> \o sAtBob
sMybot == <<"m", "y", "b", "o", "t">>

TextMention(username) ==
    [type |-> "text_mention", offset |-> 0, length |-> 2, username |-> username]

\* usernames of text_mention users are as Telegram gives them, without "@"
EntityPool ==
    {MentionEntity(3, 6), MentionEntity(6, 6), MentionEntity(0, 6), MentionEntity(3, 4),
     MentionEntity(3, 20), MentionEntity(4, 5),
     TextMention(Undefined), TextMention(Str(<<"M", "y", "B", "o", "t">>)),
     TextMention(Str(sbob)),
     [MentionEntity(3, 6) EXCEPT !.type = "bold"]}

EntityLists == UNION {[1..n -> EntityPool] : n \in 0..MaxEntities}

MentionInputs ==
    [text : {Undefined, Str(sHelloAtMybot), Str(sHiAtMyBot), Str(sHiAtBob)},
     caption : {Undefined, Str(sAtMyBot)},
     entities : {Undefined} \cup {List(l) : l \in EntityLists},
     captionEntities : {Undefined, List(<<MentionEntity(0, 6)>>)},
     botUsername : {Undefined, Str(<<>>), Str(sMybot), Str(<<" ">> \o sAtMyBot \o <<" ">>),
                    Str(sbob), Str(<<"@">>)}]

(***************************************************************************)
(* Inputs of the RPC transformer                                           *)
(***************************************************************************)
RpcMethods == {"sendMessage", "getMe", "getUpdates"}

RpcOptions ==
    [rpcUrl : {"http://localhost:3001/rpc"},
     rpcHeaders : {Undefined,
                   List(<<<<"Authorization", "Bearer secret">>>>),
                   List(<<<<"X-Relay", "1">>, <<"Content-Type", "text/plain">>>>)},
     rpcTimeout : {Undefined, Num(5)},
     excludeMethods : {{}, {"getMe"}, {"getMe", "getUpdates"}},
     hasOnError : BOOLEAN]

RpcPayloads ==
    {<<>>,
     <<<<"chat_id", Num(123)>>, <<"text", Str(<<"hello">>)>>>>,
     <<<<"text", Str(<<"hi">>)>>, <<"method", Str(<<"getMe">>)>>>>}

RpcSignals == {"none", "live", "aborted"}

RpcStatuses == {200, 204, 299, 199, 300, 404, 500}

RpcResponseTexts == {sOkTrue, sOkFalse, <<>>, <<"<", "html", ">">>}

PrevResults ==
    {[k |-> "value", v |-> <<<<"id", Num(1)>>>>],
     [k |-> "error", name |-> "HttpError", message |-> <<"prev failed">>]}

IdleRpc ==
    [pc |-> "idle", method |-> "none", payload |-> <<>>, signal |-> "none",
     signalAborted |-> FALSE, listening |-> FALSE, aborted |-> FALSE, timer |-> "none",
     timeout |-> 0, prevCalls |-> <<>>, fetches |-> <<>>, response |-> Undefined,
     prevOutcome |-> Undefined, onErrors |-> <<>>, result |-> Undefined,
     error |-> Undefined, trace |-> <<>>]

(***************************************************************************)
(* Inputs of the payload pre-pass                                          *)
(***************************************************************************)
MaxItems == 2

sHello == Str(<<"hello">>)

FileMan == File("buffer", <<77, 97, 110>>, Str(<<"man.txt">>))
FileM == File("path", <<77>>, Undefined)
FileMa == File("url", <<77, 255>>, Str(<<"a.png">>))
FileOther == File("number", <<>>, Undefined)

PayloadLeaves == {Num(123), sHello, FileMan, FileM, FileMa, FileOther}

PayloadInner ==
    PayloadLeaves \cup {Obj(<<<<"media", v>>>>) : v \in PayloadLeaves}
                  \cup {Arr(<<v>>) : v \in {FileM, sHello}}

PayloadItems ==
    {FileMan, FileOther, sHello, Obj(<<<<"media", FileM>>>>),
     Obj(<<<<"type", sHello>>, <<"media", FileMa>>>>)}

PayloadArrays == {Arr(items) : items \in UNION {[1..n -> PayloadItems] : n \in 0..MaxItems}}

PayloadObjects ==
    {Obj(<<<<"media", v>>>>) : v \in PayloadInner}
        \cup {Obj(<<<<"media", v>>, <<"thumbnail", FileM>>>>) : v \in PayloadLeaves}

PayloadValues == PayloadLeaves \cup PayloadObjects \cup PayloadArrays

Absent == [k |-> "absent"]

\* the properties present among key1: value1, key2: value2, key3: value3
PayloadOf(value1, value2, value3) ==
    (IF value1 = Absent THEN <<>> ELSE <<<<"chat_id", value1>>>>)
        \o (IF value2 = Absent THEN <<>> ELSE <<<<"video", value2>>>>)
        \o (IF value3 = Absent THEN <<>> ELSE <<<<"thumbnail", value3>>>>)

EncodePayloads ==
    {PayloadOf(chatId, video, thumbnail) :
        chatId \in {Absent, Num(123)},
        video \in {Absent} \cup PayloadValues,
        thumbnail \in {Absent, FileM, FileMa, sHello}}

(***************************************************************************)
(* Inputs of webhook startup                                               *)
(***************************************************************************)
MaxUpdates == 2

sFetchFailed == <<"f", "e", "t", "c", "h", " ", "f", "a", "i", "l", "e", "d">>
sUnauthorized == <<"4", "0", "1">>

\* what bot.init() rejects with: whether isRecoverableTelegramNetworkError
\* holds of it, and its text under formatErrorMessage
InitErrors ==
    [recoverable : BOOLEAN,
     formatted : {sRpcHttp \o <<" ", "5", "0", "2">>, sFetchFailed, sUnauthorized,
                  <<"r", "p", "c", " ", "h", "t", "t", "p">>}]

StartOptions == [hasSignal : BOOLEAN, skipSetWebhook : BOOLEAN]

NewStartup(opts) ==
    [pc |-> "start", hasSignal |-> opts.hasSignal, skipSetWebhook |-> opts.skipSetWebhook,
     signalAborted |-> FALSE, initAttempts |-> 0, initCalls |-> 0, sleeps |-> 0,
     lastErr |-> Undefined, error |-> Undefined, gaveUpLogged |-> FALSE,
     serverCreated |-> FALSE, setWebhookCalls |-> 0, listening |-> FALSE,
     abortListener |-> FALSE, closed |-> FALSE, botStopped |-> FALSE,
     pcAtAbort |-> "none", initCallsAtAbort |-> 0, updatesHandled |-> 0]

(***************************************************************************)
(* Inputs of the outbound relay                                            *)
(***************************************************************************)
SendAccounts ==
    [outboundUrl : {Undefined, Str(<<>>), Str(sUrl)},
     outboundHeaders : {Undefined, List(<<<<"Authorization", "Bearer t">>>>)}]

SendTextParams ==
    [account : SendAccounts,
     chatId : {Num(42), Num(-10), Str(<<"@", "c">>)},
     text : {Str(sHi)},
     parseMode : {Undefined, Str(<<"Markdown">>)},
     replyToMessageId : {Undefined, Num(5)}]

sLocalPng == <<"/", "t", "m", "p", "/", "a", ".", "p", "n", "g">>
sRelativePdf == <<".", "/", "b", ".", "p", "d", "f">>
sLocalMp4 == <<"/", "v", ".", "M", "p", "4">>
sLocalNoExt == <<"/", "t", "m", "p", "/", "r", "a", "w">>
sRemoteJpg == <<"h", "t", "t", "p", "s", ":", "/", "/", "x", "/", "y", ".", "j", "p", "g">>
sFileId == <<"A", "g", "A", "D">>

SendMediaParams ==
    [account : SendAccounts,
     chatId : {Num(42)},
     mediaUrl : {sLocalPng, sRelativePdf, sLocalMp4, sLocalNoExt, sRemoteJpg, sFileId},
     mediaType : {"photo", "document", "voice"},
     caption : {Undefined, Str(sHi)},
     parseMode : {Undefined},
     replyToMessageId : {Undefined}]

FileReadOutcomes ==
    {[ok |-> TRUE, bytes |-> <<77>>], [ok |-> TRUE, bytes |-> <<77, 97, 110>>],
     [ok |-> FALSE, message |-> <<"ENOENT">>]}

SendStatuses == {200, 201, 299, 199, 300, 500}

\* a response body: its text, and what response.json() makes of it
SendBodies ==
    {[text |-> Str(<<"{flat}">>),
      json |-> Obj(<<<<"ok", Bool(TRUE)>>, <<"message_id", Num(7)>>, <<"chat_id", Num(42)>>>>)],
     [text |-> Str(<<"{nested}">>),
      json |-> Obj(<<<<"ok", Bool(TRUE)>>,
                    <<"result", Obj(<<<<"message_id", Num(9)>>,
                                      <<"chat", Obj(<<<<"id", Num(43)>>>>)>>>>)>>>>)],
     [text |-> Str(<<"{both}">>),
      json |-> Obj(<<<<"result", Obj(<<<<"message_id", Num(9)>>>>)>>,
                    <<"message_id", Num(7)>>, <<"chat_id", Str(sChat10)>>>>)],
     [text |-> Str(<<"{zero}">>),
      json |-> Obj(<<<<"result", Obj(<<<<"message_id", Null>>>>)>>,
                    <<"message_id", Num(0)>>>>)],
     [text |-> Str(<<"{ok:false}">>), json |-> Obj(<<<<"ok", Bool(FALSE)>>>>)],
     [text |-> Str(<<"null">>), json |-> Null],
     [text |-> Str(<<"Bad Gateway">>), json |-> NotJson],
     [text |-> Str(<<>>), json |-> NotJson],
     [text |-> Unreadable, json |-> NotJson]}

TransportErrors == {Thrown(TRUE, <<"fetch failed">>), Thrown(FALSE, <<"boom">>)}

IdleSend ==
    [pc |-> "idle", fn |-> "none", params |-> Undefined, payload |-> <<>>,
     fetches |-> <<>>, fileReads |-> 0, status |-> 0, body |-> Undefined,
     result |-> Undefined, error |-> Undefined, log |-> <<>>]

(***************************************************************************)
(* Inputs of the path normalization                                        *)
(***************************************************************************)
MaxPathLen == 3

PathAlphabet == {"/", "t", " "}

sTgrelay == <<"t", "g", "r", "e", "l", "a", "y">>

\* the three spellings of one path
PathSpellings == {sTgrelay, <<"/">> \o sTgrelay, <<"/">> \o sTgrelay \o <<"/">>}

PathStrings ==
    UNION {[1..n -> PathAlphabet] : n \in 0..MaxPathLen} \cup PathSpellings

RequestUrls == PathSpellings \cup {<<"/">>, <<"/", "t">>}

PathInputs == [raw : PathStrings, url : RequestUrls]

(***************************************************************************)
(* Inputs of account resolution                                            *)
(***************************************************************************)
ConfiguredPaths ==
    {Undefined, Str(<<>>), Str(sDefaultWebhookPath),
     Str(<<" ">> \o sDefaultWebhookPath \o <<"/", "bot1", " ">>)}

AccountSections ==
    [webhookPath : ConfiguredPaths, enabled : {Undefined}, outboundUrl : {Undefined}]

AccountIdSets == SUBSET {<<"bot1">>, <<"bot2">>, DEFAULT_ACCOUNT_ID}

BaseSections ==
    [webhookPath : {Undefined, Str(<<"/", "hook">>)},
     enabled : {Undefined, Bool(FALSE)},
     outboundUrl : {Undefined, Str(<<" ", "http", " ">>)}]

ChannelConfigs ==
    UNION {[base : BaseSections, accounts : [ids -> AccountSections]] : ids \in AccountIdSets}

(***************************************************************************)
(* Inputs of the approval notification                                     *)
(***************************************************************************)
NotifySections ==
    [webhookPath : {Undefined}, enabled : {Undefined}, outboundUrl : {Undefined, Str(sUrl)}]

NotifyChannels ==
    UNION {[base : [webhookPath : {Undefined}, enabled : {Undefined},
                    outboundUrl : {Undefined, Str(<<" ">> \o sUrl)}],
            accounts : [ids -> NotifySections]] :
              ids \in SUBSET {<<"bot1">>, DEFAULT_ACCOUNT_ID}}

s0 == <<"0">>

ApprovedIds ==
    {s555, sChat10, <<" ", "7">>, s0, sAtBob, <<"1", "2", "a">>}

IdleNotify(channel) ==
    [pc |-> "idle", channel |-> channel, id |-> <<>>, sends |-> <<>>, results |-> <<>>]

(***************************************************************************)
(* Inputs of deliverTgrelayReply                                           *)
(***************************************************************************)
MaxChunks == 3

\* chunkMarkdownTextWithMode: the chunks of the drawn text, in order
ChunksOf(n) == [i \in 1..n |-> <<"chunk">> \o NatToString(i)]

ReplyPayloads ==
    [text : {Undefined, Str(<<>>), Str(<<"reply">>)},
     mediaUrls : {Undefined, List(<<>>), List(<<sRemoteJpg, sFileId>>)},
     mediaUrl : {Undefined, Str(sLocalPng)},
     replyToId : {Undefined, Str(<<"5">>)}]

SendOutcomes == {"ok", "failed", "threw"}

IdleDelivery ==
    [pc |-> "idle", payload |-> Undefined, chunks |-> <<>>, planned |-> <<>>, next |-> 1,
     sends |-> <<>>, statusSinks |-> 0, errors |-> 0]

(***************************************************************************)
(* Inputs of the browser control service                                   *)
(***************************************************************************)
MaxCalls == 3

\* resolveBrowserConfig's result: enabled, the drivers of the profiles, and
\* whether another process holds 127.0.0.1:controlPort
ServiceConfigs ==
    [enabled : BOOLEAN,
     profiles : {<<>>, <<"openclaw">>, <<"extension">>},
     portTaken : BOOLEAN]

IdleCall ==
    [kind |-> "none", pc |-> "idle", i |-> 0, current |-> Null,
     result |-> Undefined]

InProgress(call) == call.pc \notin {"idle", "returned"}

beginCall(b, c, kind) ==
    [b EXCEPT !.calls[c].kind = kind,
              !.overlapped = @ \/ \E o \in 1..MaxCalls : InProgress(b.calls[o])]

(***************************************************************************)
(* The variable groups a specification does not use                        *)
(***************************************************************************)
AllowOff ==
    /\ aPc = "off" /\ aSenderId = Undefined /\ aUsername = Undefined
    /\ aAllowFrom = <<>> /\ aResult = FALSE

VerifyOff ==
    /\ vPc = "off" /\ vSecret = Undefined /\ vResult = FALSE
    /\ vReq = [header |-> Undefined, query |-> Undefined, authorization |-> Undefined]

RouterOff ==
    /\ webhookTargets = <<>> /\ nextTargetId = 0 /\ unregisterFns = {}
    /\ unregistered = {} /\ hreq = IdleRequest

PipelineOff ==
    /\ cfg = BaseConfig /\ allowStore = {} /\ pairingPending = {} /\ approvals = <<>>
    /\ requestsCreated = <<>> /\ codesSent = <<>> /\ tasks = <<>>

GroupOff == gPc = "off" /\ gIn = Undefined /\ gOut = Undefined

MentionOff == mPc = "off" /\ mIn = Undefined /\ mOut = Undefined

RpcOff == rpcOpts = Undefined /\ rpc = Undefined

EncodeOff == ePc = "off" /\ eIn = Undefined /\ eOut = Undefined

StartOff == startup = Undefined

SendOff == snd = Undefined

PathOff == nPc = "off" /\ nIn = Undefined /\ nOut = Undefined

MidOff == EncodeOff /\ StartOff /\ SendOff /\ PathOff

AcctOff == acct = Undefined

NotifyOff == ntf = Undefined

DeliverOff == dlv = Undefined

ServiceOff == bcs = Undefined

LastOff == AcctOff /\ NotifyOff /\ DeliverOff /\ ServiceOff

LateOff == MidOff /\ LastOff

\* every variable group of the earlier sections unused
EarlyOff ==
    /\ AllowOff /\ VerifyOff /\ RouterOff /\ PipelineOff
    /\ GroupOff /\ MentionOff /\ RpcOff

(***************************************************************************)
(* SpecRouter: one handler invocation at a time, interleaved with          *)
(* register and unregister calls.  Handler invocations share nothing but   *)
(* the registry, which they only read.                                     *)
(***************************************************************************)
InitRouter ==
    /\ webhookTargets = <<>>
    /\ nextTargetId = 1
    /\ unregisterFns = {}
    /\ unregistered = {}
    /\ hreq = IdleRequest
    /\ AllowOff
    /\ VerifyOff
    /\ PipelineOff
    /\ GroupOff /\ MentionOff /\ RpcOff /\ LateOff

\* registerTgrelayWebhookTarget(target): synchronous, returns the unregister closure
Register(rawPath, secret) ==
    /\ nextTargetId <= MaxRegistrations
    /\ LET normalizedTarget ==
               [id |-> nextTargetId, path |-> normalizeWebhookPath(rawPath),
                inboundSecret |-> secret]
       IN  /\ webhookTargets' = registerTgrelayWebhookTarget(webhookTargets, normalizedTarget)
           /\ unregisterFns' = unregisterFns \cup {normalizedTarget}
    /\ nextTargetId' = nextTargetId + 1
    /\ UNCHANGED <<unregistered, hreq, allowVars, verifyVars, pipelineVars, moreVars>>

\* a call of the closure returned by registerTgrelayWebhookTarget
Unregister(target) ==
    /\ target \in unregisterFns
    /\ webhookTargets' = unregisterTarget(webhookTargets, target)
    /\ unregistered' = unregistered \cup {target.id}
    /\ UNCHANGED <<nextTargetId, unregisterFns, hreq, allowVars, verifyVars, pipelineVars, moreVars>>

\* handleTgrelayWebhookRequest from its entry to `await readJsonBody`
RequestArrives(pathname, method, cred) ==
    /\ hreq.pc = "idle"
    /\ LET path == normalizeWebhookPath(pathname)
           targets == targetsAt(webhookTargets, path)
           base == [IdleRequest EXCEPT !.pathname = pathname, !.method = method,
                                       !.cred = cred, !.targets = targets]
       IN  hreq' =
             IF Len(targets) = 0
             THEN [base EXCEPT !.pc = "done", !.returned = "false"]
             ELSE IF method # "POST"
             THEN [base EXCEPT !.pc = "done", !.returned = "true",
                               !.res = [Respond(405, "Method Not Allowed")
                                           EXCEPT !.allow = "POST"]]
             ELSE [base EXCEPT !.pc = "reading"]
    /\ UNCHANGED <<webhookTargets, nextTargetId, unregisterFns, unregistered,
                   allowVars, verifyVars, pipelineVars, moreVars>>

\* the .catch handler of the detached processTgrelayUpdate, answering 500
onProcessingFailed_respond500(req) ==
    [req EXCEPT !.task = "rejected",
                !.errors = Append(@, req.dispatched[1].target.id),
                !.res = Respond(500, "error")]

\* the .catch handler of the detached processTgrelayUpdate
onProcessingFailed(req) ==
    [req EXCEPT !.task = "rejected",
                !.errors = Append(@, req.dispatched[1].target.id)]

\* handleTgrelayWebhookRequest from the end of readJsonBody to its return
BodyRead(body) ==
    /\ hreq.pc = "reading"
    /\ LET out == handleAfterBody(hreq.targets, hreq.cred, body)
       IN  hreq' =
             [hreq EXCEPT
                !.pc = "done", !.body = body, !.res = out.res, !.returned = "true",
                !.lastInbound = IF out.selected = <<>> THEN <<>> ELSE <<out.selected[1].id>>,
                !.dispatched =
                    IF out.selected = <<>> THEN <<>>
                    ELSE <<[target |-> out.selected[1],
                            registered |-> out.selected[1].id \in RegisteredIds(webhookTargets)]>>,
                !.task = IF out.selected = <<>> THEN "none" ELSE "running"]
    /\ UNCHANGED <<webhookTargets, nextTargetId, unregisterFns, unregistered,
                   allowVars, verifyVars, pipelineVars, moreVars>>

\* the detached processTgrelayUpdate resolves
ProcessingResolves ==
    /\ hreq.task = "running"
    /\ hreq' = [hreq EXCEPT !.task = "resolved"]
    /\ UNCHANGED <<webhookTargets, nextTargetId, unregisterFns, unregistered,
                   allowVars, verifyVars, pipelineVars, moreVars>>

\* the detached processTgrelayUpdate rejects; an update without a message returns at once
ProcessingRejects ==
    /\ hreq.task = "running"
    /\ hreq.body.content = "update"
    /\ hreq' = onProcessingFailed(hreq)
    /\ UNCHANGED <<webhookTargets, nextTargetId, unregisterFns, unregistered,
                   allowVars, verifyVars, pipelineVars, moreVars>>

\* the invocation is over; the next request is observed
NextRequest ==
    /\ hreq.pc = "done"
    /\ hreq.task # "running"
    /\ hreq' = IdleRequest
    /\ UNCHANGED <<webhookTargets, nextTargetId, unregisterFns, unregistered,
                   allowVars, verifyVars, pipelineVars, moreVars>>

NextRouter ==
    \/ \E p \in RawTargetPaths, s \in TargetSecrets : Register(p, s)
    \/ \E t \in unregisterFns : Unregister(t)
    \/ \E p \in RequestPathnames, m \in RequestMethods, c \in RequestCredentials :
          RequestArrives(p, m, c)
    \/ \E b \in RequestBodies : BodyRead(b)
    \/ ProcessingResolves
    \/ ProcessingRejects
    \/ NextRequest

SpecRouter == InitRouter /\ [][NextRouter]_vars

(***************************************************************************)
(* processMessageWithPipeline: the steps between its suspension points     *)
(***************************************************************************)
\* sendTgrelayText: the call is recorded; without an outboundUrl no request is made
sendTgrelayText(config, task, text) ==
    LET payload == [method |-> "sendMessage", chat_id |-> task.msg.chatId, text |-> text]
    IN  [task EXCEPT !.sendCalls = Append(@, payload),
                     !.outbound = IF Truthy(config.outboundUrl) THEN Append(@, payload) ELSE @]

\* the synchronous continuation that follows the verdict
applyVerdict(task, verdict) ==
    IF verdict = "route" THEN [task EXCEPT !.pc = "agent", !.verdict = verdict, !.routed = TRUE]
    ELSE IF verdict = "pair" THEN [task EXCEPT !.pc = "awaitUpsert", !.verdict = verdict]
    ELSE [task EXCEPT !.pc = "done", !.verdict = verdict]

\* the pairing reply sent whatever the upsert reports
afterUpsert_alwaysReplies(config, task) ==
    [sendTgrelayText(config, task, "pairingCode") EXCEPT !.pc = "sendingPairing"]

\* lines 455-479: after upsertPairingRequest has resolved
afterUpsert(config, task) ==
    IF task.created
    THEN [sendTgrelayText(config, task, "pairingCode") EXCEPT !.pc = "sendingPairing"]
    ELSE [task EXCEPT !.pc = "done"]

OtherVarsOfPipeline == <<allowVars, verifyVars, routerVars, moreVars>>

\* processMessageWithPipeline from its entry to its first suspension point
StartProcessing(t, msg) ==
    /\ tasks[t].pc = "idle"
    /\ LET pre == checkBeforeStore(cfg, msg)
           base == [IdleTask EXCEPT !.msg = msg]
       IN  tasks' = [tasks EXCEPT ![t] =
             IF pre # "pass" THEN [base EXCEPT !.pc = "done", !.verdict = pre]
             ELSE IF needsStoreRead(cfg, msg)
             THEN [base EXCEPT !.pc = "awaitStore", !.storeReads = 1]
             ELSE applyVerdict(base, decideAfterStore(cfg, msg, <<>>))]
    /\ UNCHANGED <<cfg, allowStore, pairingPending, approvals, requestsCreated, codesSent,
                   OtherVarsOfPipeline>>

\* a failed read that is not caught: the task ends with the rejection
StoreReadSettles_raises(t, ok) ==
    /\ tasks[t].pc = "awaitStore"
    /\ tasks' = [tasks EXCEPT ![t] =
                    IF ok
                    THEN applyVerdict([tasks[t] EXCEPT !.storeAllowFrom = storeEntries(allowStore)],
                                      decideAfterStore(cfg, tasks[t].msg, storeEntries(allowStore)))
                    ELSE [tasks[t] EXCEPT !.pc = "done", !.failed = TRUE,
                                          !.storeReadFailed = TRUE]]
    /\ UNCHANGED <<cfg, allowStore, pairingPending, approvals, requestsCreated, codesSent,
                   OtherVarsOfPipeline>>

\* readAllowFromStore settles (a failed read is caught and gives []), the verdict follows
StoreReadSettles(t, ok) ==
    /\ tasks[t].pc = "awaitStore"
    /\ LET read == IF ok THEN storeEntries(allowStore) ELSE <<>>
           task == [tasks[t] EXCEPT !.storeAllowFrom = read, !.storeReadFailed = ~ok]
       IN  tasks' = [tasks EXCEPT ![t] =
                        applyVerdict(task, decideAfterStore(cfg, task.msg, read))]
    /\ UNCHANGED <<cfg, allowStore, pairingPending, approvals, requestsCreated, codesSent,
                   OtherVarsOfPipeline>>

\* the pairing store runs upsertPairingRequest({channel, id: String(senderId)})
UpsertPairingRequest(t) ==
    /\ tasks[t].pc = "awaitUpsert"
    /\ LET id == senderIdOf(tasks[t].msg).v
           created == id \notin pairingPending
       IN  /\ pairingPending' = pairingPending \cup {id}
           /\ requestsCreated' =
                 [requestsCreated EXCEPT ![id] = IF created THEN @ + 1 ELSE @]
           /\ tasks' = [tasks EXCEPT ![t] =
                 [@ EXCEPT !.pc = "upsertResolved", !.upserts = @ + 1, !.created = created]]
    /\ UNCHANGED <<cfg, allowStore, approvals, codesSent, OtherVarsOfPipeline>>

\* the continuation after `await upsertPairingRequest`
AfterUpsert(t) ==
    /\ tasks[t].pc = "upsertResolved"
    /\ LET next == afterUpsert(cfg, tasks[t])
           id == senderIdOf(tasks[t].msg).v
       IN  /\ tasks' = [tasks EXCEPT ![t] = next]
           /\ codesSent' = [codesSent EXCEPT ![id] =
                               @ + Len(next.sendCalls) - Len(tasks[t].sendCalls)]
    /\ UNCHANGED <<cfg, allowStore, pairingPending, approvals, requestsCreated,
                   OtherVarsOfPipeline>>

\* the pairing reply's sendTgrelayText settles; statusSink is called
PairingReplySettles(t) ==
    /\ tasks[t].pc = "sendingPairing"
    /\ tasks' = [tasks EXCEPT ![t] = [@ EXCEPT !.pc = "done", !.statusOutbound = @ + 1]]
    /\ UNCHANGED <<cfg, allowStore, pairingPending, approvals, requestsCreated, codesSent,
                   OtherVarsOfPipeline>>

\* the reply dispatcher calls deliver with a text payload
AgentDelivers(t) ==
    /\ tasks[t].pc = "agent"
    /\ tasks[t].deliveries < MaxReplies
    /\ tasks' = [tasks EXCEPT ![t] =
          [sendTgrelayText(cfg, @, "reply") EXCEPT !.pc = "delivering", !.deliveries = @ + 1]]
    /\ UNCHANGED <<cfg, allowStore, pairingPending, approvals, requestsCreated, codesSent,
                   OtherVarsOfPipeline>>

\* the reply's sendTgrelayText settles; statusSink is called
DeliverySettles(t) ==
    /\ tasks[t].pc = "delivering"
    /\ tasks' = [tasks EXCEPT ![t] = [@ EXCEPT !.pc = "agent", !.statusOutbound = @ + 1]]
    /\ UNCHANGED <<cfg, allowStore, pairingPending, approvals, requestsCreated, codesSent,
                   OtherVarsOfPipeline>>

\* dispatchReplyWithBufferedBlockDispatcher resolves or rejects
AgentSettles(t, ok) ==
    /\ tasks[t].pc = "agent"
    /\ tasks' = [tasks EXCEPT ![t] = [@ EXCEPT !.pc = "done", !.failed = ~ok]]
    /\ UNCHANGED <<cfg, allowStore, pairingPending, approvals, requestsCreated, codesSent,
                   OtherVarsOfPipeline>>

\* the invocation is over
TaskEnds(t) ==
    /\ tasks[t].pc = "done"
    /\ tasks' = [tasks EXCEPT ![t] = IdleTask]
    /\ UNCHANGED <<cfg, allowStore, pairingPending, approvals, requestsCreated, codesSent,
                   OtherVarsOfPipeline>>

\* an operator approves the outstanding pairing request of a sender
Approve(id) ==
    /\ id \in pairingPending
    /\ Len(approvals) < MaxApprovals
    /\ allowStore' = allowStore \cup {id}
    /\ pairingPending' = pairingPending \ {id}
    /\ approvals' = Append(approvals, id)
    /\ UNCHANGED <<cfg, requestsCreated, codesSent, tasks, OtherVarsOfPipeline>>

TaskSteps(t) ==
    \/ \E ok \in BOOLEAN : StoreReadSettles(t, ok)
    \/ UpsertPairingRequest(t)
    \/ AfterUpsert(t)
    \/ PairingReplySettles(t)
    \/ AgentDelivers(t)
    \/ DeliverySettles(t)
    \/ \E ok \in BOOLEAN : AgentSettles(t, ok)
    \/ TaskEnds(t)

InitStores ==
    /\ pairingPending = {}
    /\ approvals = <<>>
    /\ requestsCreated = [id \in SenderIds |-> 0]
    /\ codesSent = [id \in SenderIds |-> 0]

(***************************************************************************)
(* SpecPipeline: one message at a time, every configuration and message    *)
(***************************************************************************)
InitPipeline ==
    /\ cfg \in PipelineConfigs
    /\ tasks = [t \in {1} |-> IdleTask]
    /\ allowStore \in {{}, {555}}
    /\ InitStores
    /\ AllowOff /\ VerifyOff /\ RouterOff
    /\ GroupOff /\ MentionOff /\ RpcOff /\ LateOff

NextPipeline ==
    \/ \E msg \in AllMessages : StartProcessing(1, msg)
    \/ TaskSteps(1)
    \/ \E id \in SenderIds : Approve(id)

SpecPipeline == InitPipeline /\ [][NextPipeline]_vars

(***************************************************************************)
(* SpecPairing: concurrent private-chat messages under the pairing policy  *)
(***************************************************************************)
InitPairing ==
    /\ cfg \in PairingConfigs
    /\ tasks = [t \in 1..MaxTasks |-> IdleTask]
    /\ allowStore = {}
    /\ InitStores
    /\ AllowOff /\ VerifyOff /\ RouterOff
    /\ GroupOff /\ MentionOff /\ RpcOff /\ LateOff

NextPairing ==
    \/ \E t \in 1..MaxTasks, msg \in PairingMessages : StartProcessing(t, msg)
    \/ \E t \in 1..MaxTasks : TaskSteps(t)
    \/ \E id \in SenderIds : Approve(id)

SpecPairing == InitPairing /\ [][NextPairing]_vars

(***************************************************************************)
(* Claims about private-chat access control                                *)
(***************************************************************************)
Started(t) == tasks[t].pc # "idle"

PrivateChat(t) == tasks[t].msg.chatType = "private"

\* a message that reaches the DM policy: not bot-authored, with text or media
ReachesPolicy(t) == ~senderIsBot(tasks[t].msg) /\ hasRawBody(tasks[t].msg)

SenderOf(t) == tasks[t].msg.from.id

InConfigList(t) ==
    isSenderAllowed(senderIdOf(tasks[t].msg), senderUsernameOf(tasks[t].msg), cfg.dmAllowFrom)

InStoreAsRead(t) ==
    isSenderAllowed(senderIdOf(tasks[t].msg), senderUsernameOf(tasks[t].msg),
                    tasks[t].storeAllowFrom)

PairingPayload(t) ==
    [method |-> "sendMessage", chat_id |-> tasks[t].msg.chatId, text |-> "pairingCode"]

\* the case of C6: pairing policy, private chat, sender in neither list
C6_Case(t) ==
    /\ Started(t) /\ PrivateChat(t) /\ ReachesPolicy(t)
    /\ dmPolicyOf(cfg) = "pairing"
    /\ ~InConfigList(t)
    /\ SenderOf(t) \notin allowStore

C6_EachMessage ==
    \A t \in DOMAIN tasks :
        C6_Case(t) =>
            /\ ~tasks[t].routed
            /\ tasks[t].pc \notin {"agent", "delivering"}
            /\ tasks[t].pc = "done" =>
                  /\ tasks[t].upserts = 1
                  /\ tasks[t].sendCalls =
                        IF tasks[t].created THEN <<PairingPayload(t)>> ELSE <<>>

ReplyInFlight(id) ==
    \E t \in DOMAIN tasks :
        /\ tasks[t].pc = "upsertResolved" /\ tasks[t].created /\ SenderOf(t) = id

C6_OneReplyWhileOutstanding ==
    \A id \in DOMAIN codesSent :
        /\ codesSent[id] <= requestsCreated[id]
        /\ id \notin allowStore =>
              /\ codesSent[id] <= 1
              /\ (id \in pairingPending /\ ~ReplyInFlight(id)) => codesSent[id] = 1

\* C6: under DM policy pairing, every private-chat message that reaches the policy
\* from a sender in neither dm.allowFrom nor the pairing store calls
\* upsertPairingRequest once, is never routed to the agent, and has sendTgrelayText
\* called with the pairing reply exactly when its upsert reported created; while
\* the sender's request is outstanding exactly one pairing reply has been sent.
C6_PairingOnFirstContact == C6_EachMessage /\ C6_OneReplyWhileOutstanding

\* two messages of one unknown sender are over: one was answered, the other was not
C6_Witness ==
    \E t1, t2 \in DOMAIN tasks :
        /\ t1 # t2 /\ SenderOf(t1) = SenderOf(t2)
        /\ C6_Case(t1) /\ tasks[t1].pc = "done" /\ tasks[t1].created
        /\ Len(tasks[t1].sendCalls) = 1
        /\ C6_Case(t2) /\ tasks[t2].pc = "done" /\ ~tasks[t2].created
        /\ tasks[t2].upserts = 1 /\ tasks[t2].sendCalls = <<>>

C7_StoreWrittenByApprovalOnly ==
    allowStore = {approvals[i] : i \in 1..Len(approvals)}

C7_RoutedOnlyOnceApproved ==
    \A t \in DOMAIN tasks :
        (Started(t) /\ PrivateChat(t) /\ tasks[t].routed /\ ~InConfigList(t)) =>
            /\ SenderOf(t) \in allowStore
            /\ InStoreAsRead(t)

C7_ApprovedIsRouted ==
    \A t \in DOMAIN tasks :
        (PrivateChat(t) /\ ReachesPolicy(t) /\ tasks[t].pc \notin {"idle", "awaitStore"}) =>
            /\ tasks[t].storeReads = 1
            /\ InStoreAsRead(t) =>
                  /\ tasks[t].routed
                  /\ tasks[t].upserts = 0
                  /\ tasks[t].pc \in {"agent", "delivering", "done"}
                  /\ \A i \in 1..Len(tasks[t].sendCalls) :
                        tasks[t].sendCalls[i].text # "pairingCode"

\* C7: under DM policy pairing the allow store holds exactly the approved senders
\* (message processing never writes it); a private-chat message of a sender absent
\* from dm.allowFrom is routed only if the store, read for that message, held the
\* sender; and a message for which the store read returned the sender is routed
\* with no upsertPairingRequest call and no pairing reply, the store being read
\* once for every message that reaches the policy.
C7_ApprovalIsExternal ==
    C7_StoreWrittenByApprovalOnly /\ C7_RoutedOnlyOnceApproved /\ C7_ApprovedIsRouted

\* a sender that was sent a pairing code and then approved has a message routed
C7_Witness ==
    \E t \in DOMAIN tasks :
        /\ PrivateChat(t) /\ tasks[t].routed /\ ~InConfigList(t)
        /\ dmPolicyOf(cfg) = "pairing"
        /\ codesSent[SenderOf(t)] = 1
        /\ approvals = <<SenderOf(t)>>
        /\ tasks[t].upserts = 0 /\ tasks[t].sendCalls = <<>>

\* the case of C8: disabled, or allowlist with a sender in neither list
C8_Case(t) ==
    /\ Started(t) /\ PrivateChat(t)
    /\ \/ dmPolicyOf(cfg) = "disabled"
       \/ /\ dmPolicyOf(cfg) = "allowlist"
          /\ ~InConfigList(t)
          /\ SenderOf(t) \notin allowStore

\* C8: a private-chat message under dmPolicy disabled, or under dmPolicy allowlist
\* from a sender in neither dm.allowFrom nor the pairing store, is never routed to
\* the agent, has no upsertPairingRequest call made for it and gets no reply; under
\* these two policies no pairing request exists at all.
C8_DisabledAndAllowlistDrop ==
    /\ \A t \in DOMAIN tasks :
          C8_Case(t) =>
              /\ ~tasks[t].routed
              /\ tasks[t].upserts = 0
              /\ tasks[t].pc \in {"awaitStore", "done"}
              /\ tasks[t].sendCalls = <<>>
    /\ (tasks # <<>> /\ dmPolicyOf(cfg) \in {"disabled", "allowlist"}) =>
          /\ pairingPending = {}
          /\ \A id \in DOMAIN requestsCreated : requestsCreated[id] = 0

\* an unlisted sender's message has been dropped under the allowlist policy
C8_Witness ==
    /\ tasks # <<>>
    /\ C8_Case(1) /\ ReachesPolicy(1)
    /\ dmPolicyOf(cfg) = "allowlist"
    /\ tasks[1].pc = "done" /\ tasks[1].storeReads = 1

(***************************************************************************)
(* Claims about outbound requests                                          *)
(***************************************************************************)
GroupDropReasons ==
    {"groupPolicyDisabled", "noAllowlist", "notAllowlisted", "chatDisabled",
     "senderNotAllowed"}

\* the mention gate applies and no command bypass is possible
MentionMissing(t) ==
    LET msg == tasks[t].msg
        groupEntry == resolveGroupConfig(Num(msg.chatId), msg.title, cfg.groups).entry
    IN  /\ isGroupChat(msg)
        /\ requireMentionOf(cfg, groupEntry)
        /\ ~extractMentionInfo(msg, cfg.botUsername).wasMentioned
        /\ ~hasControlCommand(msg)

C9_Rejected(t) ==
    /\ Started(t)
    /\ tasks[t].msg.chatType # "nochat"
    /\ \/ senderIsBot(tasks[t].msg) /\ cfg.dmPolicy # "open"
       \/ C8_Case(t)
       \/ checkBeforeStore(cfg, tasks[t].msg) \in GroupDropReasons
       \/ MentionMissing(t)

C9_CallIsReplyOrCode(t, call) ==
    \/ call.text = "reply" /\ tasks[t].routed
    \/ /\ call.text = "pairingCode"
       /\ PrivateChat(t) /\ dmPolicyOf(cfg) = "pairing"
       /\ tasks[t].created /\ tasks[t].upserts = 1 /\ ~tasks[t].routed

\* C9: every request a message's processing makes to the outbound relay comes from
\* a sendTgrelayText call that either delivers a reply of a message routed to the
\* agent or sends the pairing code of a DM whose upsert reported created; a message
\* rejected by the bot-sender rule, the DM policy, the group policy, the group
\* entry, the sender allowlist or the mention gate has no such call and no request.
C9_OutboundOnlyForRepliesAndCodes ==
    \A t \in DOMAIN tasks :
        /\ \A i \in 1..Len(tasks[t].sendCalls) : C9_CallIsReplyOrCode(t, tasks[t].sendCalls[i])
        /\ \A i \in 1..Len(tasks[t].outbound) :
              /\ Truthy(cfg.outboundUrl)
              /\ \E j \in 1..Len(tasks[t].sendCalls) :
                    tasks[t].sendCalls[j] = tasks[t].outbound[i]
        /\ C9_Rejected(t) =>
              /\ tasks[t].sendCalls = <<>>
              /\ tasks[t].outbound = <<>>
              /\ ~tasks[t].routed

\* after a pairing code went out, a group message without a mention was dropped
C9_Witness ==
    /\ tasks # <<>>
    /\ tasks[1].pc = "done" /\ MentionMissing(1)
    /\ checkBeforeStore(cfg, tasks[1].msg) = "pass"
    /\ tasks[1].outbound = <<>>
    /\ \E id \in DOMAIN codesSent : codesSent[id] = 1

(***************************************************************************)
(* Claims about group access control                                       *)
(***************************************************************************)
GroupChat(t) == tasks[t].msg.chatType \in {"group", "supergroup", "channel"}

EffectiveGroupPolicy ==
    IF cfg.groupPolicy # "unset" THEN cfg.groupPolicy
    ELSE IF cfg.defaultGroupPolicy # "unset" THEN cfg.defaultGroupPolicy
    ELSE "allowlist"

\* the task ended without a store read, a pairing request, a routing or a reply
DroppedEarly(t) ==
    /\ tasks[t].pc = "done"
    /\ ~tasks[t].routed
    /\ tasks[t].storeReads = 0
    /\ tasks[t].upserts = 0
    /\ tasks[t].sendCalls = <<>>

\* C11: when the effective groupPolicy (the account's, else the channel default)
\* is disabled, every message of a group, supergroup or channel chat is dropped
\* before agent routing, whatever the groups, allowlists, mentions and commands.
C11_GroupPolicyDisabledDrops ==
    \A t \in DOMAIN tasks :
        (Started(t) /\ GroupChat(t) /\ EffectiveGroupPolicy = "disabled") => DroppedEarly(t)

\* under a disabled channel default, a command that mentions the bot in a chat
\* covered by a "*" entry without mention requirement has been dropped
C11_Witness ==
    /\ tasks # <<>>
    /\ Started(1) /\ GroupChat(1)
    /\ cfg.groupPolicy = "unset" /\ cfg.defaultGroupPolicy = "disabled"
    /\ <<"*">> \in DOMAIN cfg.groups
    /\ hasControlCommand(tasks[1].msg)
    /\ extractMentionInfo(tasks[1].msg, cfg.botUsername).wasMentioned
    /\ tasks[1].pc = "done"

\* the keys under which the chat of the message can be configured
ChatKeys(t) ==
    LET title == tasks[t].msg.title
    IN  {String(Num(tasks[t].msg.chatId)), <<"*">>}
            \cup (IF title = Undefined THEN {}
                  ELSE {title.v, toLowerCase(trim(title.v))} \ {<<>>})

EntryOfChat(t) ==
    resolveGroupConfig(Num(tasks[t].msg.chatId), tasks[t].msg.title, cfg.groups).entry

\* the entry's users when that list is non-empty, otherwise the account's groupAllowFrom
ApplicableUsers(t) ==
    LET groupEntry == EntryOfChat(t)
    IN  IF groupEntry # Undefined /\ groupEntry.users # Undefined
              /\ groupEntry.users.v # <<>>
        THEN groupEntry.users.v
        ELSE IF cfg.groupAllowFrom # Undefined THEN cfg.groupAllowFrom.v
        ELSE <<>>

SenderMatches(t, list) ==
    isSenderAllowed(senderIdOf(tasks[t].msg), senderUsernameOf(tasks[t].msg), list)

\* C14: a group message whose applicable user allowlist (the entry's users when
\* non-empty, otherwise the account's groupAllowFrom) is non-empty and does not
\* match the sender is never routed: it is dropped before the store is read and
\* before the mention gate.
C14_UserAllowlistEnforced ==
    \A t \in DOMAIN tasks :
        ( /\ Started(t) /\ GroupChat(t)
          /\ Len(ApplicableUsers(t)) > 0
          /\ ~SenderMatches(t, ApplicableUsers(t)) ) => DroppedEarly(t)

\* the message passed the bot rule, the body check, the policy and allowlist checks
PassedGroupChecks(t) ==
    Started(t) /\ GroupChat(t) /\ checkBeforeStore(cfg, tasks[t].msg) = "pass"

\* the entry's requireMention, else the account's, else true
RequireMentionEffective(t) ==
    LET groupEntry == EntryOfChat(t)
    IN  IF groupEntry # Undefined /\ groupEntry.requireMention # "unset"
        THEN groupEntry.requireMention = "true"
        ELSE IF cfg.requireMention # "unset" THEN cfg.requireMention = "true"
        ELSE TRUE

BotMentioned(t) == extractMentionInfo(tasks[t].msg, cfg.botUsername).wasMentioned

\* a control command without any mention, from a sender authorized for commands
CommandBypass(t) ==
    LET groupUsers == groupUsersOf(cfg, EntryOfChat(t))
    IN  /\ cfg.allowTextCommands
        /\ hasControlCommand(tasks[t].msg)
        /\ ~extractMentionInfo(tasks[t].msg, cfg.botUsername).hasAnyMention
        /\ \/ ~cfg.useAccessGroups
           \/ Len(groupUsers) > 0 /\ SenderMatches(t, groupUsers)

\* C15: for a group message that passed the policy and allowlist checks, with
\* requireMention the entry's value, else the account's, else true: when it is
\* false the mention gate never drops the message; when it is true, the bot was
\* not mentioned and no authorized control-command bypass applies, the message is
\* dropped and never routed; when the bot was mentioned or the bypass applies the
\* gate lets the message through.
C15_MentionGate ==
    \A t \in DOMAIN tasks :
        PassedGroupChecks(t) =>
            /\ tasks[t].pc \in {"agent", "delivering", "done"}
            /\ tasks[t].storeReads = 0
            /\ (RequireMentionEffective(t) /\ ~BotMentioned(t) /\ ~CommandBypass(t)) =>
                  /\ tasks[t].pc = "done" /\ ~tasks[t].routed
                  /\ tasks[t].verdict = "mentionRequired"
                  /\ tasks[t].sendCalls = <<>>
            /\ (~RequireMentionEffective(t) \/ BotMentioned(t) \/ CommandBypass(t)) =>
                  /\ tasks[t].verdict \in {"route", "controlCommand"}
                  /\ tasks[t].routed <=> tasks[t].verdict = "route"

\* a command that mentions another user, in a chat that requires a mention, has
\* been dropped
C15_Witness ==
    /\ tasks # <<>>
    /\ PassedGroupChecks(1)
    /\ RequireMentionEffective(1) /\ ~BotMentioned(1) /\ ~CommandBypass(1)
    /\ hasControlCommand(tasks[1].msg)
    /\ extractMentionInfo(tasks[1].msg, cfg.botUsername).hasAnyMention
    /\ tasks[1].pc = "done" /\ ~tasks[1].routed

(***************************************************************************)
(* Claims about the bot-sender rule and the store read                     *)
(***************************************************************************)
BotAuthored(t) == tasks[t].msg.from # Undefined /\ tasks[t].msg.from.isBot

\* the same message from a sender that is no bot
NotBotTwin(t) == [tasks[t].msg EXCEPT !.from.isBot = FALSE]

\* what becomes of the twin, given the store entries read for the message
TwinVerdict(t) ==
    IF checkBeforeStore(cfg, NotBotTwin(t)) # "pass"
    THEN checkBeforeStore(cfg, NotBotTwin(t))
    ELSE decideAfterStore(cfg, NotBotTwin(t), tasks[t].storeAllowFrom)

\* C17: a message whose sender has is_bot set is dropped before any policy
\* evaluation, store read, pairing request or routing unless the account's
\* dm.policy is exactly "open"; under "open" it is processed like the same message
\* from a sender that is no bot.
C17_BotSenderRule ==
    \A t \in DOMAIN tasks :
        (Started(t) /\ tasks[t].msg.chatType # "nochat" /\ BotAuthored(t)) =>
            /\ cfg.dmPolicy # "open" => (DroppedEarly(t) /\ tasks[t].verdict = "bot")
            /\ cfg.dmPolicy = "open" =>
                  /\ tasks[t].storeReads =
                        IF checkBeforeStore(cfg, NotBotTwin(t)) = "pass"
                              /\ needsStoreRead(cfg, NotBotTwin(t))
                        THEN 1 ELSE 0
                  /\ tasks[t].pc # "awaitStore" => tasks[t].verdict = TwinVerdict(t)

\* under the default DM policy a bot-authored group message has been dropped that
\* would have been routed had its sender been no bot
C17_Witness ==
    /\ tasks # <<>>
    /\ Started(1) /\ GroupChat(1) /\ BotAuthored(1)
    /\ cfg.dmPolicy = "unset"
    /\ TwinVerdict(1) = "route"
    /\ tasks[1].pc = "done" /\ ~tasks[1].routed

EffectiveDmPolicy == IF cfg.dmPolicy = "unset" THEN "pairing" ELSE cfg.dmPolicy

\* the message reached line 395: it has a chat and was not dropped before
ReachedStoreDecision(t) ==
    Started(t) /\ tasks[t].verdict \notin ({"nochat", "bot", "empty"} \cup GroupDropReasons)

\* C18: the pairing store is read at most once per processed message, and exactly
\* for a private-chat message that reaches the DM policy and whose DM policy is not
\* open or that needs command authorization; never for a group message, never for
\* an open-policy DM without a command.
C18_StoreReadOnlyWhenNeeded ==
    \A t \in DOMAIN tasks :
        /\ tasks[t].storeReads \in {0, 1}
        /\ tasks[t].storeReads = 1 <=>
              /\ ReachedStoreDecision(t)
              /\ PrivateChat(t)
              /\ EffectiveDmPolicy # "open" \/ hasControlCommand(tasks[t].msg)

\* an open-policy DM carrying a command has been routed after one store read
C18_Witness ==
    /\ tasks # <<>>
    /\ PrivateChat(1) /\ EffectiveDmPolicy = "open"
    /\ hasControlCommand(tasks[1].msg)
    /\ tasks[1].storeReads = 1 /\ tasks[1].routed

(***************************************************************************)
(* SpecGroups: resolveGroupConfig and the settings taken from its entry,   *)
(* applied to drawn chats and configurations                               *)
(***************************************************************************)
InitGroups ==
    /\ gPc = "call"
    /\ gIn \in ResolverInputs
    /\ gOut = Undefined
    /\ AllowOff /\ VerifyOff /\ RouterOff /\ PipelineOff /\ MentionOff /\ RpcOff /\ LateOff

CallResolveGroupConfig ==
    /\ gPc = "call"
    /\ gPc' = "done"
    /\ gOut' = groupSettingsOf(
                   [BaseConfig EXCEPT !.groups = gIn.groups,
                                      !.requireMention = gIn.requireMention,
                                      !.groupAllowFrom = gIn.groupAllowFrom],
                   gIn.groupId, gIn.groupName)
    /\ UNCHANGED <<gIn, allowVars, verifyVars, routerVars, pipelineVars, mentionVars,
                   rpcVars, lateVars>>

NextGroups == CallResolveGroupConfig

SpecGroups == InitGroups /\ [][NextGroups]_vars

(***************************************************************************)
(* Claims about resolveGroupConfig                                         *)
(***************************************************************************)
GroupKeysIn == DOMAIN gIn.groups

GroupIdKey == String(gIn.groupId)

GroupTitle == IF gIn.groupName = Undefined THEN <<>> ELSE gIn.groupName.v

GroupTitleLower == toLowerCase(trim(GroupTitle))

HasExactEntry ==
    \/ GroupIdKey \in GroupKeysIn
    \/ GroupTitle # <<>> /\ GroupTitle \in GroupKeysIn
    \/ GroupTitleLower # <<>> /\ GroupTitleLower \in GroupKeysIn

ExactEntry ==
    IF GroupIdKey \in GroupKeysIn THEN gIn.groups[GroupIdKey]
    ELSE IF GroupTitle # <<>> /\ GroupTitle \in GroupKeysIn THEN gIn.groups[GroupTitle]
    ELSE gIn.groups[GroupTitleLower]

C13_EntryByIdThenTitleThenWildcard ==
    gOut.entry =
        IF HasExactEntry THEN ExactEntry
        ELSE IF <<"*">> \in GroupKeysIn THEN gIn.groups[<<"*">>]
        ELSE Undefined

C13_SettingsOfExactEntry ==
    HasExactEntry =>
        /\ gOut.requireMention =
              IF ExactEntry.requireMention # "unset" THEN ExactEntry.requireMention = "true"
              ELSE IF gIn.requireMention # "unset" THEN gIn.requireMention = "true"
              ELSE TRUE
        /\ gOut.users =
              IF ExactEntry.users # Undefined THEN ExactEntry.users.v
              ELSE IF gIn.groupAllowFrom # Undefined THEN gIn.groupAllowFrom.v
              ELSE <<>>
        /\ gOut.disabled = (ExactEntry.enabled = "false" \/ ExactEntry.allow = "false")
        /\ gOut.systemPrompt =
              IF ExactEntry.systemPrompt # Undefined /\ trim(ExactEntry.systemPrompt.v) # <<>>
              THEN Str(trim(ExactEntry.systemPrompt.v))
              ELSE Undefined

\* C13: resolveGroupConfig returns the entry keyed by the chat id, else the entry
\* keyed by the chat title (as given, else trimmed and lower-cased), else the "*"
\* entry, else none; when an entry of the chat exists, requireMention and users
\* are its values or else the account's, enabled/allow and systemPrompt are its
\* values or else absent, and none of them is the "*" entry's.
C13_WildcardIsFallbackOnly ==
    gPc = "done" => (C13_EntryByIdThenTitleThenWildcard /\ C13_SettingsOfExactEntry)

\* a chat with an entry without fields next to a "*" entry that sets every field
C13_Witness ==
    /\ gPc = "done"
    /\ HasExactEntry /\ ExactEntry = NoEntryFields
    /\ <<"*">> \in GroupKeysIn
    /\ GroupIdKey \notin GroupKeysIn
    /\ gOut.entry = NoEntryFields
    /\ gOut.users = <<Num(555)>> /\ gOut.requireMention = FALSE
    /\ ~gOut.disabled /\ gOut.systemPrompt = Undefined

(***************************************************************************)
(* SpecMention: extractMentionInfo, and the mention gate of a chat that    *)
(* requires a mention, applied to drawn messages and bot usernames         *)
(***************************************************************************)
InitMention ==
    /\ mPc = "call"
    /\ mIn \in MentionInputs
    /\ mOut = Undefined
    /\ AllowOff /\ VerifyOff /\ RouterOff /\ PipelineOff /\ GroupOff /\ RpcOff /\ LateOff

NoCommand ==
    [allowTextCommands |-> TRUE, hasControlCommand |-> FALSE, commandAuthorized |-> FALSE]

CallExtractMentionInfo ==
    /\ mPc = "call"
    /\ mPc' = "done"
    /\ LET mentionInfo == extractMentionInfo(mIn, mIn.botUsername)
       IN  mOut' = [hasAnyMention |-> mentionInfo.hasAnyMention,
                    wasMentioned |-> mentionInfo.wasMentioned,
                    mentionGate |-> resolveMentionGatingWithBypass(
                        TRUE, mentionInfo.wasMentioned, mentionInfo.hasAnyMention,
                        NoCommand)]
    /\ UNCHANGED <<mIn, allowVars, verifyVars, routerVars, pipelineVars, groupVars,
                   rpcVars, lateVars>>

NextMention == CallExtractMentionInfo

SpecMention == InitMention /\ [][NextMention]_vars

(***************************************************************************)
(* Claims about extractMentionInfo                                         *)
(***************************************************************************)
EntitiesIn ==
    IF mIn.entities # Undefined THEN mIn.entities.v
    ELSE IF mIn.captionEntities # Undefined THEN mIn.captionEntities.v
    ELSE <<>>

TextIn ==
    IF mIn.text # Undefined THEN mIn.text.v
    ELSE IF mIn.caption # Undefined THEN mIn.caption.v
    ELSE <<>>

\* lower-cased, one leading "@" dropped
NameCanon(s) ==
    LET lower == toLowerCase(s)
    IN  IF lower # <<>> /\ lower[1] = "@" THEN SubSeq(lower, 2, Len(lower)) ELSE lower

\* the characters of TextIn at positions offset .. offset + length - 1 (from 0)
Substring(offset, length) ==
    LET last == IF offset + length > Len(TextIn) THEN Len(TextIn) ELSE offset + length
    IN  [i \in 1..(IF last > offset THEN last - offset ELSE 0) |-> TextIn[offset + i]]

RefersToBot(entity) ==
    \/ /\ entity.type = "text_mention"
       /\ entity.username # Undefined /\ entity.username.v # <<>>
       /\ NameCanon(entity.username.v) = NameCanon(trim(mIn.botUsername.v))
    \/ /\ entity.type = "mention"
       /\ NameCanon(Substring(entity.offset, entity.length))
              = NameCanon(trim(mIn.botUsername.v))

C16_Scenario ==
    /\ mIn.text = Str(sHelloAtMybot)
    /\ mIn.entities = List(<<MentionEntity(6, 6)>>)
    /\ mIn.botUsername = Str(sMybot)

OtherVarsOfRpc ==
    <<allowVars, verifyVars, routerVars, pipelineVars, groupVars, mentionVars, lateVars>>

InitRpc ==
    /\ rpcOpts \in RpcOptions
    /\ rpc = IdleRpc
    /\ AllowOff /\ VerifyOff /\ RouterOff /\ PipelineOff /\ GroupOff /\ MentionOff
    /\ LateOff

\* lines 20-40: the transformer up to its first await
RpcCall(method, payload, signal) ==
    /\ rpc.pc = "idle"
    /\ LET call == [IdleRpc EXCEPT !.method = method, !.payload = payload,
                                   !.signal = signal,
                                   !.signalAborted = (signal = "aborted")]
       IN  rpc' =
             IF isExcluded(rpcOpts, method)
             THEN [call EXCEPT !.pc = "prev",
                               !.prevCalls = <<[method |-> method, payload |-> payload,
                                                signal |-> signal]>>,
                               !.trace = <<"prev">>]
             ELSE [call EXCEPT !.pc = "fetching",
                               !.timer = "armed",
                               !.timeout = IF rpcOpts.rpcTimeout = Undefined
                                           THEN DefaultRpcTimeout
                                           ELSE rpcOpts.rpcTimeout.v,
                               !.listening = (signal # "none"),
                               !.fetches = <<rpcRequest(rpcOpts, method, payload)>>,
                               !.trace = <<"setTimeout", "fetch">>]
    /\ UNCHANGED <<rpcOpts, OtherVarsOfRpc>>

\* the promise returned by prev settles
PrevSettles(outcome) ==
    /\ rpc.pc = "prev"
    /\ rpc' = IF outcome.k = "value"
              THEN [rpc EXCEPT !.pc = "returned", !.prevOutcome = outcome,
                               !.result = outcome]
              ELSE [rpc EXCEPT !.pc = "thrown", !.prevOutcome = outcome,
                               !.error = outcome]
    /\ UNCHANGED <<rpcOpts, OtherVarsOfRpc>>

\* lines 41-46: fetch resolves with a response
FetchResponds(status, text) ==
    /\ rpc.pc = "fetching"
    /\ ~rpc.aborted
    /\ LET got == [rpc EXCEPT !.response = [status |-> status, text |-> text],
                              !.timer = "cleared",
                              !.trace = Append(@, "clearTimeout")]
       IN  rpc' = IF ~responseOk(status)
                  THEN rpcCatch(rpcOpts, got, rpcHttpError(status))
                  ELSE [got EXCEPT !.pc = "readingJson"]
    /\ UNCHANGED <<rpcOpts, OtherVarsOfRpc>>

\* fetch rejects: a transport error, or the abort of controller.signal
FetchRejects ==
    /\ rpc.pc = "fetching"
    /\ rpc' = rpcCatch(rpcOpts, rpc,
                       IF rpc.aborted
                       THEN [k |-> "error", name |-> "AbortError", message |-> <<>>]
                       ELSE [k |-> "error", name |-> "TypeError",
                             message |-> <<"fetch failed">>])
    /\ UNCHANGED <<rpcOpts, OtherVarsOfRpc>>

\* the promise of response.json(), returned from inside the try block, settles
JsonSettles ==
    /\ rpc.pc = "readingJson"
    /\ LET parsed == jsonParse(rpc.response.text)
       IN  rpc' = IF parsed.k = "value"
                  THEN [rpc EXCEPT !.pc = "returned", !.result = parsed]
                  ELSE [rpc EXCEPT !.pc = "thrown", !.error = parsed]
    /\ UNCHANGED <<rpcOpts, OtherVarsOfRpc>>

\* a timer whose callback forgets to abort the controller
TimerFires_noAbort ==
    /\ rpc.timer = "armed"
    /\ rpc' = [rpc EXCEPT !.timer = "fired"]
    /\ UNCHANGED <<rpcOpts, OtherVarsOfRpc>>

\* line 26: the timeout callback runs
TimerFires ==
    /\ rpc.timer = "armed"
    /\ rpc' = [rpc EXCEPT !.timer = "fired", !.aborted = TRUE]
    /\ UNCHANGED <<rpcOpts, OtherVarsOfRpc>>

\* the caller aborts its signal; line 28 forwards the event to the controller
SignalAborts ==
    /\ rpc.signal = "live"
    /\ ~rpc.signalAborted
    /\ rpc' = [rpc EXCEPT !.signalAborted = TRUE,
                          !.aborted = @ \/ rpc.listening]
    /\ UNCHANGED <<rpcOpts, OtherVarsOfRpc>>

\* the caller has its result; the next call may start
RpcCallEnds ==
    /\ rpc.pc \in {"returned", "thrown"}
    /\ rpc' = IdleRpc
    /\ UNCHANGED <<rpcOpts, OtherVarsOfRpc>>

NextRpc ==
    \/ \E method \in RpcMethods, payload \in RpcPayloads, signal \in RpcSignals :
          RpcCall(method, payload, signal)
    \/ \E outcome \in PrevResults : PrevSettles(outcome)
    \/ \E status \in RpcStatuses, text \in RpcResponseTexts : FetchResponds(status, text)
    \/ FetchRejects
    \/ JsonSettles
    \/ TimerFires
    \/ SignalAborts
    \/ RpcCallEnds

SpecRpc == InitRpc /\ [][NextRpc]_vars

\* fetch observes the abort of controller.signal and rejects
FetchAborted == rpc.aborted /\ FetchRejects

\* The runtime runs an armed timer's callback, fetch rejects once its signal is
\* aborted, and the body of a received response is read to its end or to a
\* stream error.  Whether and when the endpoint responds is left open.
SpecRpcLive ==
    /\ SpecRpc
    /\ WF_vars(TimerFires)
    /\ WF_vars(FetchAborted)
    /\ WF_vars(JsonSettles)

(***************************************************************************)
(* SpecEncode: processPayloadForRpc applied to drawn payloads              *)
(***************************************************************************)
InitEncode ==
    /\ ePc = "call"
    /\ eIn \in EncodePayloads
    /\ eOut = Undefined
    /\ EarlyOff /\ StartOff /\ SendOff /\ PathOff /\ LastOff

CallProcessPayloadForRpc ==
    /\ ePc = "call"
    /\ ePc' = "done"
    /\ eOut' = processPayloadForRpc(eIn)
    /\ UNCHANGED <<eIn, allowVars, verifyVars, routerVars, pipelineVars, groupVars,
                   mentionVars, rpcVars, startVars, sendVars, pathVars, lastVars>>

NextEncode == CallProcessPayloadForRpc

SpecEncode == InitEncode /\ [][NextEncode]_vars

(***************************************************************************)
(* SpecStart: one startTelegramWebhook invocation, with bot.init, the      *)
(* backoff sleep, setWebhook, the listening server and the external abort  *)
(* signal as environment                                                   *)
(***************************************************************************)
OtherVarsOfStart ==
    <<allowVars, verifyVars, routerVars, pipelineVars, groupVars, mentionVars, rpcVars,
      encodeVars, sendVars, pathVars, lastVars>>

InitStart ==
    /\ startup \in {NewStartup(opts) : opts \in StartOptions}
    /\ EarlyOff /\ EncodeOff /\ SendOff /\ PathOff /\ LastOff

\* lines 57-85: up to the first await of bot.init()
StartWebhook ==
    /\ startup.pc = "start"
    /\ startup' = [startup EXCEPT !.pc = "awaitInit", !.initCalls = 1]
    /\ UNCHANGED OtherVarsOfStart

\* lines 87, 120-216: bot.init() resolved; createServer, then setWebhook unless
\* skipped, then server.listen
InitSucceeds ==
    /\ startup.pc = "awaitInit"
    /\ startup' = IF startup.skipSetWebhook
                  THEN [startup EXCEPT !.pc = "awaitListen", !.serverCreated = TRUE]
                  ELSE [startup EXCEPT !.pc = "awaitSetWebhook", !.serverCreated = TRUE,
                                       !.setWebhookCalls = @ + 1]
    /\ UNCHANGED OtherVarsOfStart

\* lines 88-111: bot.init() rejected
InitFails(err) ==
    /\ startup.pc = "awaitInit"
    /\ startup' = onInitFailed(startup, err)
    /\ UNCHANGED OtherVarsOfStart

\* sleepWithAbort resolved: the loop calls bot.init() again
SleepEnds ==
    /\ startup.pc = "sleeping"
    /\ ~startup.signalAborted
    /\ startup' = [startup EXCEPT !.pc = "awaitInit", !.initCalls = @ + 1]
    /\ UNCHANGED OtherVarsOfStart

\* sleepWithAbort rejected on the abort of opts.abortSignal
SleepAborted ==
    /\ startup.pc = "sleeping"
    /\ startup.hasSignal /\ startup.signalAborted
    /\ startup' = onSleepRejected(startup, <<"aborted">>)
    /\ UNCHANGED OtherVarsOfStart

\* sleepWithAbort rejected for another reason
SleepFails ==
    /\ startup.pc = "sleeping"
    /\ ~startup.signalAborted
    /\ startup' = onSleepRejected(startup, <<"sleep failed">>)
    /\ UNCHANGED OtherVarsOfStart

\* lines 202-216: setWebhook settled
SetWebhookSettles(ok) ==
    /\ startup.pc = "awaitSetWebhook"
    /\ startup' = IF ok THEN [startup EXCEPT !.pc = "awaitListen"]
                  ELSE [startup EXCEPT !.pc = "failed",
                                       !.error = [kind |-> "setWebhook",
                                                  message |-> sFetchFailed]]
    /\ UNCHANGED OtherVarsOfStart

\* lines 216-230: the server listens; the abort listener is added; return
ListenStarts ==
    /\ startup.pc = "awaitListen"
    /\ startup' = [startup EXCEPT !.pc = "running", !.listening = TRUE,
                                  !.abortListener = startup.hasSignal]
    /\ UNCHANGED OtherVarsOfStart

\* the external abort signal fires; a registered listener (once) runs shutdown
AbortSignalFires ==
    /\ startup.hasSignal /\ ~startup.signalAborted
    /\ LET fired == [startup EXCEPT !.signalAborted = TRUE,
                                    !.pcAtAbort = startup.pc,
                                    !.initCallsAtAbort = startup.initCalls]
       IN  startup' = IF startup.abortListener THEN shutdown(fired) ELSE fired
    /\ UNCHANGED OtherVarsOfStart

\* lines 122-196: the listening server takes a POST and hands the update to the bot
HandleUpdate ==
    /\ startup.listening
    /\ startup.updatesHandled < MaxUpdates
    /\ startup' = [startup EXCEPT !.updatesHandled = @ + 1]
    /\ UNCHANGED OtherVarsOfStart

NextStart ==
    \/ StartWebhook
    \/ InitSucceeds
    \/ \E err \in InitErrors : InitFails(err)
    \/ SleepEnds
    \/ SleepAborted
    \/ SleepFails
    \/ \E ok \in BOOLEAN : SetWebhookSettles(ok)
    \/ ListenStarts
    \/ AbortSignalFires
    \/ HandleUpdate

SpecStart == InitStart /\ [][NextStart]_vars

\* a sleep whose signal is aborted rejects
SpecStartLive == SpecStart /\ WF_vars(SleepAborted)

(***************************************************************************)
(* SpecSend: one sendTgrelayText or sendTgrelayMedia call at a time, with  *)
(* the file system and the outbound endpoint as environment                *)
(***************************************************************************)
OtherVarsOfSend ==
    <<allowVars, verifyVars, routerVars, pipelineVars, groupVars, mentionVars, rpcVars,
      encodeVars, startVars, pathVars, lastVars>>

InitSend ==
    /\ snd = IdleSend
    /\ EarlyOff /\ EncodeOff /\ StartOff /\ PathOff /\ LastOff

\* lines 98-110
SendText(params) ==
    /\ snd.pc = "idle"
    /\ snd' = sendToOutbound([IdleSend EXCEPT !.fn = "sendTgrelayText", !.params = params],
                             params.account, textPayload(params))
    /\ UNCHANGED OtherVarsOfSend

\* lines 112-128, 166-181: up to the await of fs.readFile or of fetch
SendMedia(params) ==
    /\ snd.pc = "idle"
    /\ LET call == [IdleSend EXCEPT !.fn = "sendTgrelayMedia", !.params = params]
       IN  snd' = IF isLocalFile(params.mediaUrl)
                  THEN [call EXCEPT !.pc = "readingFile", !.fileReads = 1]
                  ELSE sendToOutbound(call, params.account, remoteMediaPayload(params))
    /\ UNCHANGED OtherVarsOfSend

\* lines 129-165, 181: fs.readFile settled
MediaFileRead(outcome) ==
    /\ snd.pc = "readingFile"
    /\ snd' = IF outcome.ok
              THEN sendToOutbound(snd, snd.params.account,
                                  localMediaPayload(snd.params, outcome.bytes))
              ELSE [snd EXCEPT !.pc = "returned",
                               !.result = SendFailure(<<"Failed to read local file: ">>
                                                          \o outcome.message),
                               !.log = Append(@, "tgrelay failed to read local file")]
    /\ UNCHANGED OtherVarsOfSend

\* lines 55-61: fetch resolved with a response
OutboundResponds(status) ==
    /\ snd.pc = "fetching"
    /\ snd' = [snd EXCEPT !.pc = "readingBody", !.status = status]
    /\ UNCHANGED OtherVarsOfSend

\* lines 62-87: response.text() or response.json() settled
OutboundBodySettles(body) ==
    /\ snd.pc = "readingBody"
    /\ LET read == [snd EXCEPT !.body = body]
       IN  snd' = IF ~responseOk(snd.status)
                  THEN [read EXCEPT !.pc = "returned",
                                    !.result = httpFailure(snd.status, body),
                                    !.log = Append(@, "tgrelay outbound failed")]
                  ELSE settleSend(read, successOf(body, snd.payload))
    /\ UNCHANGED OtherVarsOfSend

\* lines 55, 88-95: fetch rejected
OutboundRejects(err) ==
    /\ snd.pc = "fetching"
    /\ snd' = settleSend(snd, err)
    /\ UNCHANGED OtherVarsOfSend

\* the caller has the result; the next send may start
SendEnds ==
    /\ snd.pc \in {"returned", "thrown"}
    /\ snd' = IdleSend
    /\ UNCHANGED OtherVarsOfSend

NextSend ==
    \/ \E params \in SendTextParams : SendText(params)
    \/ \E params \in SendMediaParams : SendMedia(params)
    \/ \E outcome \in FileReadOutcomes : MediaFileRead(outcome)
    \/ \E status \in SendStatuses : OutboundResponds(status)
    \/ \E body \in SendBodies : OutboundBodySettles(body)
    \/ \E err \in TransportErrors : OutboundRejects(err)
    \/ SendEnds

SpecSend == InitSend /\ [][NextSend]_vars

(***************************************************************************)
(* SpecPath: normalizeWebhookPath applied once and twice to a drawn path,  *)
(* a target registered under the path and a request looked up              *)
(***************************************************************************)
OtherVarsOfPath ==
    <<allowVars, verifyVars, routerVars, pipelineVars, groupVars, mentionVars, rpcVars,
      encodeVars, startVars, sendVars, lastVars>>

InitPath ==
    /\ nPc = "ready"
    /\ nIn \in PathInputs
    /\ nOut = Undefined
    /\ EarlyOff /\ EncodeOff /\ StartOff /\ SendOff /\ LastOff

\* lines 96-101 on an empty registry, with the key normalized once more
RegisterPath ==
    /\ nPc = "ready"
    /\ nPc' = "registered"
    /\ LET key == normalizeWebhookPath(nIn.raw)
           normalizedTarget == [id |-> 1, path |-> key, inboundSecret |-> Undefined]
       IN  nOut' = [once |-> key,
                    twice |-> normalizeWebhookPath(key),
                    registry |-> registerTgrelayWebhookTarget(<<>>, normalizedTarget),
                    key |-> Undefined,
                    found |-> <<>>]
    /\ UNCHANGED <<nIn, OtherVarsOfPath>>

\* lines 142-144: the lookup of a request
LookupPath ==
    /\ nPc = "registered"
    /\ nPc' = "done"
    /\ LET path == normalizeWebhookPath(urlPathname(nIn.url))
       IN  nOut' = [nOut EXCEPT !.key = Str(path),
                                !.found = targetsAt(nOut.registry, path)]
    /\ UNCHANGED <<nIn, OtherVarsOfPath>>

NextPath == RegisterPath \/ LookupPath

SpecPath == InitPath /\ [][NextPath]_vars

(***************************************************************************)
(* SpecAccounts: every account of a drawn configuration resolved           *)
(***************************************************************************)
OtherVarsOfAccounts == <<earlyVars, midVars, ntf, dlv, bcs>>

InitAccounts ==
    /\ acct \in [pc : {"ready"}, channel : ChannelConfigs, resolved : {<<>>}]
    /\ EarlyOff /\ MidOff /\ NotifyOff /\ DeliverOff /\ ServiceOff

\* listTgrelayAccountIds(cfg).map((accountId) => resolveTgrelayAccount({cfg, accountId}))
ResolveAccounts ==
    /\ acct.pc = "ready"
    /\ LET ids == listTgrelayAccountIds(acct.channel)
       IN  acct' = [acct EXCEPT
                      !.pc = "done",
                      !.resolved = [i \in 1..Len(ids) |->
                                       resolveTgrelayAccount(acct.channel, Str(ids[i]))]]
    /\ UNCHANGED OtherVarsOfAccounts

NextAccounts == ResolveAccounts

SpecAccounts == InitAccounts /\ [][NextAccounts]_vars

(***************************************************************************)
(* SpecNotify: one pairing approval and its notifyApproval call            *)
(***************************************************************************)
OtherVarsOfNotify == <<earlyVars, midVars, acct, dlv, bcs>>

InitNotify ==
    /\ ntf \in {IdleNotify(channel) : channel \in NotifyChannels}
    /\ EarlyOff /\ MidOff /\ AcctOff /\ DeliverOff /\ ServiceOff

\* the host approves the pairing of sender `id` and calls notifyApproval
ApprovePairing(id) ==
    /\ ntf.pc = "idle"
    /\ ntf' = notifyApproval(ntf, ntf.channel, id)
    /\ UNCHANGED OtherVarsOfNotify

\* lines 86-90: the awaited sendTgrelayText settles with its result
NotifySendSettles(ok) ==
    /\ ntf.pc = "sending"
    /\ ntf' = [ntf EXCEPT !.pc = "returned", !.results = Append(ntf.results, ok)]
    /\ UNCHANGED OtherVarsOfNotify

NextNotify ==
    \/ \E id \in ApprovedIds : ApprovePairing(id)
    \/ \E ok \in BOOLEAN : NotifySendSettles(ok)

SpecNotify == InitNotify /\ [][NextNotify]_vars

(***************************************************************************)
(* SpecDeliver: one deliverTgrelayReply invocation, the sends settling as  *)
(* the relay decides                                                       *)
(***************************************************************************)
OtherVarsOfDeliver == <<earlyVars, midVars, acct, ntf, bcs>>

InitDeliver ==
    /\ dlv = IdleDelivery
    /\ EarlyOff /\ MidOff /\ AcctOff /\ NotifyOff /\ ServiceOff

\* lines 589-647 up to the first await
DeliverReply(payload, n) ==
    /\ dlv.pc = "idle"
    /\ dlv' = startSend([dlv EXCEPT !.payload = payload, !.chunks = ChunksOf(n),
                                    !.planned = plannedSends(payload, ChunksOf(n))])
    /\ UNCHANGED OtherVarsOfDeliver

SendSettles(outcome) ==
    /\ dlv.pc = "sending"
    /\ dlv' = onSendSettled(dlv, outcome)
    /\ UNCHANGED OtherVarsOfDeliver

NextDeliver ==
    \/ \E payload \in ReplyPayloads, n \in 1..MaxChunks : DeliverReply(payload, n)
    \/ \E outcome \in SendOutcomes : SendSettles(outcome)

SpecDeliver == InitDeliver /\ [][NextDeliver]_vars

(***************************************************************************)
(* SpecService: concurrent calls of startBrowserControlServiceFromConfig   *)
(* and stopBrowserControlService                                           *)
(***************************************************************************)
OtherVarsOfService == <<earlyVars, midVars, acct, ntf, dlv>>

InitService ==
    /\ \E resolved \in ServiceConfigs :
          bcs = [state |-> Null, resolved |-> resolved, listening |-> {}, created |-> 0,
                 overlapped |-> FALSE, calls |-> [c \in 1..MaxCalls |-> IdleCall]]
    /\ EarlyOff /\ MidOff /\ AcctOff /\ NotifyOff /\ DeliverOff

\* lines 25-48, up to the await of app.listen
StartService(c) ==
    /\ bcs.calls[c].pc = "idle"
    /\ LET b == beginCall(bcs, c, "start")
       IN  bcs' = IF b.state # Null
                  THEN [b EXCEPT !.calls[c].pc = "returned", !.calls[c].result = b.state]
                  ELSE IF ~b.resolved.enabled
                  THEN [b EXCEPT !.calls[c].pc = "returned", !.calls[c].result = Null]
                  ELSE [b EXCEPT !.calls[c].pc = "awaitListen"]
    /\ UNCHANGED OtherVarsOfService

\* lines 46-78 after app.listen settled: the bind succeeds when nothing holds
\* the port, another server of this process included
ListenSettles(c) ==
    /\ bcs.calls[c].pc = "awaitListen"
    /\ bcs' = IF bcs.resolved.portTaken \/ bcs.listening # {}
              THEN [bcs EXCEPT !.calls[c].pc = "returned", !.calls[c].result = Null]
              ELSE LET id == bcs.created + 1
                   IN  continueStart([bcs EXCEPT !.created = id,
                                                 !.listening = {id},
                                                 !.state = ServerState(id)], c, 1)
    /\ UNCHANGED OtherVarsOfService

\* lines 72-78: ensureChromeExtensionRelayServer settled; a failure is caught
\* and logged, so both outcomes go on alike
RelaySettles(c) ==
    /\ bcs.calls[c].pc = "awaitRelay"
    /\ bcs' = continueStart(bcs, c, bcs.calls[c].i + 1)
    /\ UNCHANGED OtherVarsOfService

\* lines 81-94 and, with no profile, lines 104-108
StopService(c) ==
    /\ bcs.calls[c].pc = "idle"
    /\ LET b == [beginCall(bcs, c, "stop") EXCEPT !.calls[c].current = bcs.state]
       IN  bcs' = IF b.state = Null
                  THEN [b EXCEPT !.calls[c].pc = "returned"]
                  ELSE IF Len(b.resolved.profiles) > 0
                  THEN [b EXCEPT !.calls[c].pc = "awaitStopBrowser", !.calls[c].i = 1]
                  ELSE closeServer(b, c)
    /\ UNCHANGED OtherVarsOfService

\* lines 92-108: stopRunningBrowser of one profile settled, failures ignored
StopBrowserSettles(c) ==
    /\ bcs.calls[c].pc = "awaitStopBrowser"
    /\ bcs' = IF bcs.calls[c].i < Len(bcs.resolved.profiles)
              THEN [bcs EXCEPT !.calls[c].i = @ + 1]
              ELSE closeServer(bcs, c)
    /\ UNCHANGED OtherVarsOfService

\* lines 105-114: the close callback ran
CloseSettles(c) ==
    /\ bcs.calls[c].pc = "awaitClose"
    /\ bcs' = [bcs EXCEPT !.state = Null, !.calls[c].pc = "awaitPlaywright"]
    /\ UNCHANGED OtherVarsOfService

\* lines 112-118: the import or closePlaywrightBrowserConnection settled
PlaywrightSettles(c) ==
    /\ bcs.calls[c].pc = "awaitPlaywright"
    /\ bcs' = [bcs EXCEPT !.calls[c].pc = "returned"]
    /\ UNCHANGED OtherVarsOfService

NextService ==
    \/ \E c \in 1..MaxCalls : StartService(c)
    \/ \E c \in 1..MaxCalls : ListenSettles(c)
    \/ \E c \in 1..MaxCalls : RelaySettles(c)
    \/ \E c \in 1..MaxCalls : StopService(c)
    \/ \E c \in 1..MaxCalls : StopBrowserSettles(c)
    \/ \E c \in 1..MaxCalls : CloseSettles(c)
    \/ \E c \in 1..MaxCalls : PlaywrightSettles(c)

SpecService == InitService /\ [][NextService]_vars

(***************************************************************************)
(* Claims about the payload pre-pass                                       *)
(***************************************************************************)
ItemNames == <<"#0", "#1", "#2", "#3">>

\* the files and primitive values of a value, each with the path leading to it
\* (property names; "#i" for the i-th item of an array)
RECURSIVE LeavesOf(_, _)
LeavesOf(value, path) ==
    IF value.k = "object"
    THEN UNION {LeavesOf(value.v[i][2], Append(path, value.v[i][1])) :
                    i \in 1..Len(value.v)}
    ELSE IF value.k = "array"
    THEN UNION {LeavesOf(value.v[i], Append(path, ItemNames[i])) : i \in 1..Len(value.v)}
    ELSE {<<path, value>>}

ExpectedBase64(bytes) ==
    CASE bytes = <<77, 97, 110>> -> <<"T", "W", "F", "u">>
      [] bytes = <<77>> -> <<"T", "Q", "=", "=">>
      [] bytes = <<77, 255>> -> <<"T", "f", "8", "=">>
      [] OTHER -> <<>>

\* where the file_data structure of the file at a path belongs: in place of an
\* array item, or in the object that held the file
FileDataPath(path) ==
    IF path[Len(path)] \in {ItemNames[i] : i \in 1..Len(ItemNames)}
    THEN Append(path, "file_data")
    ELSE Append(SubSeq(path, 1, Len(path) - 1), "file_data")

EncodedIn(leaves, path, file) ==
    /\ <<Append(FileDataPath(path), "base64"), Str(ExpectedBase64(file.bytes))>> \in leaves
    /\ <<Append(FileDataPath(path), "filename"), file.filename>> \in leaves

EncodeDone == ePc = "done" /\ ~IsError(eOut)

\* C24: in the payload the pre-pass returns there is no file value left; every
\* file of the input, at the top level, in a nested object or in an array, is
\* represented by a file_data structure with the base64 text of its bytes and
\* its filename; every other value is where and what it was.
C24_NoRawFileAndAllEncoded ==
    EncodeDone =>
        LET before == LeavesOf(Obj(eIn), <<>>)
            after == LeavesOf(eOut, <<>>)
        IN  /\ \A leaf \in after : leaf[2].k # "file"
            /\ \A leaf \in before :
                  IF leaf[2].k = "file" THEN EncodedIn(after, leaf[1], leaf[2])
                  ELSE leaf \in after

FileLeaves(leaves) == {leaf \in leaves : leaf[2].k = "file"}

Base64Leaves(leaves) == {leaf \in leaves : leaf[1][Len(leaf[1])] = "base64"}

\* C38: the payload the pre-pass returns holds one file_data structure for
\* each file of the input, with the base64 text of that file's bytes: as
\* many encoded attachments leave the pre-pass as files entered it, none
\* replaced by another's.
C38_EveryAttachmentKept ==
    EncodeDone =>
        LET before == FileLeaves(LeavesOf(Obj(eIn), <<>>))
            after == Base64Leaves(LeavesOf(eOut, <<>>))
        IN  /\ Cardinality(after) = Cardinality(before)
            /\ \A file \in before :
                  \E leaf \in after : leaf[2] = Str(ExpectedBase64(file[2].bytes))

(***************************************************************************)
(* Claims about the RPC transformer                                        *)
(***************************************************************************)
RpcCalled == rpc # Undefined /\ rpc.pc # "idle"

RpcExcluded == rpc.method \in rpcOpts.excludeMethods

IsMethodKey(property) == property[1] = "method"

IsNotMethodKey(property) == property[1] # "method"

\* { method, ...payload }: the method (the payload's own "method" property if it
\* has one) followed by the other properties of the payload
ExpectedRpcObject ==
    LET own == SelectSeq(rpc.payload, IsMethodKey)
    IN  <<<<"method", IF own = <<>> THEN Str(<<rpc.method>>) ELSE own[Len(own)][2]>>>>
            \o SelectSeq(rpc.payload, IsNotMethodKey)

IsContentType(property) == property[1] = "Content-Type"

IsNotContentType(property) == property[1] # "Content-Type"

\* Content-Type: application/json (rpcHeaders' own value if they set one), then
\* the other rpcHeaders
ExpectedRpcHeaders ==
    LET given == IF rpcOpts.rpcHeaders = Undefined THEN <<>> ELSE rpcOpts.rpcHeaders.v
        own == SelectSeq(given, IsContentType)
    IN  <<<<"Content-Type",
            IF own = <<>> THEN "application/json" ELSE own[Len(own)][2]>>>>
            \o SelectSeq(given, IsNotContentType)

sSendMessageBody ==
    <<"{", "\"", "method", "\"", ":", "\"", "sendMessage", "\"", ",",
      "\"", "chat_id", "\"", ":", "1", "2", "3", ",",
      "\"", "text", "\"", ":", "\"", "hello", "\"", "}">>

C19_ExcludedRoute ==
    /\ rpc.fetches = <<>>
    /\ rpc.timer = "none"
    /\ rpc.prevCalls =
          <<[method |-> rpc.method, payload |-> rpc.payload, signal |-> rpc.signal]>>
    /\ rpc.onErrors = <<>>
    /\ rpc.pc = "returned" => (rpc.prevOutcome.k = "value" /\ rpc.result = rpc.prevOutcome)
    /\ rpc.pc = "thrown" => (rpc.prevOutcome.k = "error" /\ rpc.error = rpc.prevOutcome)

C19_RpcRoute ==
    /\ rpc.prevCalls = <<>>
    /\ Len(rpc.fetches) = 1
    /\ rpc.fetches[1].url = rpcOpts.rpcUrl
    /\ rpc.fetches[1].method = "POST"
    /\ rpc.fetches[1].headers = ExpectedRpcHeaders
    /\ rpc.fetches[1].body = jsonStringify(ExpectedRpcObject)
    /\ ( /\ rpc.method = "sendMessage"
         /\ rpc.payload = <<<<"chat_id", Num(123)>>, <<"text", Str(<<"hello">>)>>>> )
          => rpc.fetches[1].body = sSendMessageBody
    /\ rpc.pc = "returned" =>
          /\ rpc.response.status \in 200..299
          /\ rpc.result = jsonParse(rpc.response.text)
          /\ rpc.result.k = "value"

\* C19: every call through the transformer takes exactly one route.  A method of
\* excludeMethods goes to prev with the same method, payload and signal, prev's
\* outcome is the call's and nothing is sent to the RPC URL.  Any other method
\* makes one POST to the RPC URL whose body is the JSON text of
\* { method, ...payload } and whose headers are Content-Type: application/json
\* spread with rpcHeaders; prev is not called and a returned value is the parsed
\* response body.
C19_ExactlyOneRoute ==
    RpcCalled =>
        /\ Len(rpc.prevCalls) + Len(rpc.fetches) = 1
        /\ IF RpcExcluded THEN C19_ExcludedRoute ELSE C19_RpcRoute

\* with getMe and getUpdates excluded, a getMe call carrying a live signal has
\* returned what prev returned
C19_Witness ==
    /\ RpcCalled
    /\ rpcOpts.excludeMethods = {"getMe", "getUpdates"}
    /\ rpc.method = "getMe" /\ rpc.signal = "live"
    /\ rpc.pc = "returned"
    /\ rpc.result = [k |-> "value", v |-> <<<<"id", Num(1)>>>>]
    /\ rpc.fetches = <<>>

\* the decimal digits of a three-digit status
StatusDigits(status) ==
    <<Digit(status \div 100), Digit((status \div 10) % 10), Digit(status % 10)>>

OnErrorBeforeThrow ==
    \E i, j \in 1..Len(rpc.trace) :
        /\ i < j /\ rpc.trace[i] = "onError" /\ rpc.trace[j] = "throw"
        /\ \A n \in 1..Len(rpc.trace) : rpc.trace[n] = "onError" => n = i

\* the endpoint answered the call with a status outside 200..299
RpcNon2xx ==
    /\ RpcCalled /\ ~RpcExcluded
    /\ rpc.response # Undefined
    /\ rpc.response.status \notin 200..299

\* C20: when the endpoint answers a non-excluded call with a non-2xx status, the
\* call fails with an Error whose message is "RPC HTTP <status>", onError (when
\* configured) has been called exactly once, with the method and that error,
\* before the throw, and the request was sent once only.
C20_Non2xxFailsOnce ==
    RpcNon2xx =>
        /\ rpc.pc = "thrown"
        /\ rpc.error.name = "Error"
        /\ rpc.error.message = <<"RPC HTTP ">> \o StatusDigits(rpc.response.status)
        /\ Len(rpc.fetches) = 1
        /\ rpc.timer = "cleared"
        /\ IF rpcOpts.hasOnError
           THEN /\ rpc.onErrors = <<[method |-> rpc.method, error |-> rpc.error]>>
                /\ OnErrorBeforeThrow
           ELSE rpc.onErrors = <<>>

\* a sendMessage call answered with 500 has failed after one onError call
C20_Witness ==
    /\ RpcNon2xx
    /\ rpcOpts.hasOnError
    /\ rpc.method = "sendMessage"
    /\ rpc.response.status = 500
    /\ rpc.pc = "thrown"
    /\ rpc.error.message = <<"RPC HTTP ", "5", "0", "0">>
    /\ Len(rpc.onErrors) = 1

RpcFailed == RpcCalled /\ ~RpcExcluded /\ rpc.pc = "thrown"

\* C21: whenever a call of a non-excluded method has failed (transport error,
\* timeout, caller cancellation, non-2xx status or a response body that is not
\* JSON) and onError is configured, onError has been called exactly once, with
\* the method and the error the caller receives.
C21_OnErrorOnEveryFailure ==
    (RpcFailed /\ rpcOpts.hasOnError) =>
        rpc.onErrors = <<[method |-> rpc.method, error |-> rpc.error]>>

RpcPending == RpcCalled /\ ~RpcExcluded /\ rpc.pc \in {"fetching", "readingJson"}

RpcCompleted == RpcCalled /\ ~RpcExcluded /\ rpc.pc \in {"returned", "thrown"}

\* the timer runs for rpcTimeout, 30000 ms when unset; once it has fired the
\* request is aborted and still waiting to fail; a completed call has no timer
C22_TimerState ==
    (RpcCalled /\ ~RpcExcluded) =>
        /\ rpc.timeout = IF rpcOpts.rpcTimeout = Undefined THEN 30000
                         ELSE rpcOpts.rpcTimeout.v
        /\ rpc.timer \in {"armed", "fired", "cleared"}
        /\ rpc.timer = "fired" => (rpc.aborted /\ rpc.pc = "fetching")
        /\ rpc.pc \in {"returned", "thrown"} => rpc.timer = "cleared"

\* a call whose timer has fired goes on to fail, never to a result
C22_FiredThenFails ==
    (RpcCalled /\ rpc.timer = "fired") =>
        \/ rpc'.pc = "fetching" /\ rpc'.timer = "fired" /\ rpc'.aborted
        \/ rpc'.pc = "thrown" /\ rpc'.error.name = "AbortError"

C23_CallerAbortAbortsRequest ==
    (RpcCalled /\ ~RpcExcluded /\ rpc.signal # "none") =>
        /\ (rpc.pc = "fetching" /\ rpc.signalAborted) => rpc.aborted
        /\ rpc.signal = "aborted" => (rpc.response = Undefined /\ rpc.pc # "returned")

(***************************************************************************)
(* Claims about webhook startup                                            *)
(***************************************************************************)
\* the failure is a recoverable network error or its text contains "RPC HTTP"
\* (of the drawn texts, "RPC HTTP 502" alone does)
Retryable(err) ==
    \/ err.recoverable
    \/ err.formatted = <<"R", "P", "C", " ", "H", "T", "T", "P", " ", "5", "0", "2">>

FailedInInit == startup.pc = "failed" /\ startup.error.kind = "init"

FailedBeforeInit == startup.pc = "failed" /\ startup.error.kind \in {"init", "aborted", "sleep"}

C25_State ==
    /\ startup.initCalls <= 10
    /\ startup.pc = "sleeping" =>
          /\ Retryable(startup.lastErr)
          /\ startup.initAttempts < 10
          /\ startup.sleeps = startup.initAttempts
    /\ FailedInInit =>
          /\ ~Retryable(startup.lastErr) \/ startup.initAttempts = 10
          /\ startup.error.message = startup.lastErr.formatted
          /\ startup.initCalls = startup.initAttempts
          /\ startup.sleeps = startup.initAttempts - 1
    /\ FailedBeforeInit =>
          (~startup.serverCreated /\ ~startup.listening /\ startup.updatesHandled = 0)
    /\ (startup.serverCreated \/ startup.listening \/ startup.updatesHandled > 0) =>
          startup.initCalls = startup.initAttempts + 1

C25_Step ==
    /\ startup'.initCalls # startup.initCalls =>
          /\ startup'.initCalls = startup.initCalls + 1
          /\ startup.pc = "start" \/ (startup.pc = "sleeping" /\ Retryable(startup.lastErr))
    /\ (startup.pc = "awaitInit" /\ startup'.pc = "failed") =>
          startup'.sleeps = startup.sleeps

\* C25: bot.init is called at most 10 times; a further call is made only after
\* a backoff sleep that followed a failure which is a recoverable network error
\* or whose text contains "RPC HTTP"; a failure of another kind, and the 10th
\* failure, are rethrown without a sleep; after such a failure no server has
\* been created or listens; a server exists and handles updates only after an
\* init call that succeeded.
C25_InitRetryCeiling == []C25_State /\ [][C25_Step]_vars

\* ten init calls failed with a retryable error: nine sleeps, then the rethrow
C25_Witness ==
    /\ FailedInInit
    /\ startup.initCalls = 10 /\ startup.initAttempts = 10 /\ startup.sleeps = 9
    /\ Retryable(startup.lastErr)
    /\ startup.gaveUpLogged
    /\ ~startup.serverCreated

AbortedWhileSleeping == startup.signalAborted /\ startup.pcAtAbort = "sleeping"

C26_State ==
    AbortedWhileSleeping =>
        /\ startup.pc \in {"sleeping", "failed"}
        /\ startup.initCalls = startup.initCallsAtAbort
        /\ startup.pc = "failed" =>
              /\ startup.error.kind = "aborted"
              /\ startup.error.message =
                    <<"a", "b", "o", "r", "t", "e", "d", " ", "d", "u", "r", "i", "n", "g",
                      " ", "i", "n", "i", "t", " ", "r", "e", "t", "r", "y">>
        /\ ~startup.serverCreated /\ ~startup.listening

\* C26: when the external abort signal fires while startup sleeps between init
\* attempts, the sleep ends and startup fails with the error "aborted during
\* init retry"; bot.init is not called again after the abort.
C26_AbortDuringSleep ==
    /\ []C26_State
    /\ (AbortedWhileSleeping ~> startup.pc = "failed")

\* the signal fired during the sleep after the second failed init call
C26_Witness ==
    /\ AbortedWhileSleeping
    /\ startup.pc = "failed"
    /\ startup.error.kind = "aborted"
    /\ startup.initCalls = 2 /\ startup.sleeps = 2

(***************************************************************************)
(* Claims about the outbound relay                                         *)
(***************************************************************************)
SendCalled == snd.pc # "idle"

SendReturned == snd.pc = "returned"

UrlConfigured ==
    /\ snd.params.account.outboundUrl # Undefined
    /\ snd.params.account.outboundUrl.v # <<>>

StructuredFailure ==
    /\ snd.result.ok = FALSE
    /\ snd.result.error.k = "str" /\ snd.result.error.v # <<>>
    /\ snd.result.messageId = Undefined

Got2xx == snd.status \in 200..299

GotNon2xx == snd.status # 0 /\ snd.status \notin 200..299

C28_SendOwnsCancellationScope ==
    snd.pc \in {"fetching", "readingBody"} =>
        \A i \in 1..Len(snd.fetches) : snd.fetches[i].signal # "none"

RequestChatId ==
    CASE snd.params.chatId = Num(42) -> <<"4", "2">>
      [] snd.params.chatId = Num(-10) -> <<"-", "1", "0">>
      [] OTHER -> snd.params.chatId.v

\* message id and chat id the claim assigns to each drawn body
ExpectedIds ==
    CASE snd.body.text = Str(<<"{flat}">>) ->
             [messageId |-> Str(<<"7">>), chatId |-> Str(<<"4", "2">>)]
      [] snd.body.text = Str(<<"{nested}">>) ->
             [messageId |-> Str(<<"9">>), chatId |-> Str(<<"4", "3">>)]
      [] snd.body.text = Str(<<"{both}">>) ->
             [messageId |-> Str(<<"9">>), chatId |-> Str(<<"-", "1", "0">>)]
      [] snd.body.text = Str(<<"{zero}">>) ->
             [messageId |-> Str(<<"0">>), chatId |-> Str(RequestChatId)]
      [] OTHER -> [messageId |-> Undefined, chatId |-> Str(RequestChatId)]

\* C29: for every 2xx response sendTgrelayText returns ok: true, with the
\* message id of result.message_id, else of the flat message_id, and the chat
\* id of result.chat.id, else of the flat chat_id, else of the request, as
\* strings; the body's ok field plays no part, and a body that is not JSON
\* gives ok: true without a message id.
C29_ResultOf2xx ==
    (SendReturned /\ snd.fn = "sendTgrelayText" /\ snd.body # Undefined /\ Got2xx) =>
        /\ snd.result.ok = TRUE
        /\ snd.result.messageId = ExpectedIds.messageId
        /\ snd.result.chatId = ExpectedIds.chatId

(***************************************************************************)
(* Claims about normalizeWebhookPath                                       *)
(***************************************************************************)
PathNormalized == nPc \in {"registered", "done"}

sSlashTgrelay == <<"/">> \o sTgrelay

SpellingsAgree ==
    /\ nIn.raw \in PathSpellings => nOut.once = sSlashTgrelay
    /\ nIn.raw = <<>> => nOut.once = <<"/">>
    /\ (nPc = "done" /\ nIn.raw \in PathSpellings /\ nIn.url \in PathSpellings) =>
          (Len(nOut.found) = 1 /\ nOut.found[1].id = 1)

\* the statement as given: idempotent for every path string
C30_IdempotentForEveryPath ==
    PathNormalized => (nOut.twice = nOut.once /\ SpellingsAgree)

\* the trimmed path does not end in two slashes or in white space and a slash
AtMostOneTrailingSlash ==
    LET trimmed == trim(nIn.raw)
    IN  /\ ~endsWith(trimmed, <<"/", "/">>)
        /\ ~endsWith(trimmed, <<" ", "/">>)

\* C30: normalizeWebhookPath applied twice gives what one application gives
\* for every path whose trimmed form does not end in two slashes or in white
\* space followed by a slash; "tgrelay", "/tgrelay" and "/tgrelay/" all give
\* "/tgrelay" and the empty path gives "/"; a target registered under one of
\* the three spellings is found by a request to any of them.
C30_IdempotentUpToOneTrailingSlash ==
    PathNormalized =>
        /\ AtMostOneTrailingSlash => nOut.twice = nOut.once
        /\ SpellingsAgree

\* "/tgrelay/" was registered, lost its slash once, and "tgrelay" found it
C30_Witness ==
    /\ nPc = "done"
    /\ nIn.raw = sSlashTgrelay \o <<"/">>
    /\ nIn.url = sTgrelay
    /\ nOut.once = sSlashTgrelay /\ nOut.twice = sSlashTgrelay
    /\ Len(nOut.found) = 1

(***************************************************************************)
(* Claims about account resolution                                         *)
(***************************************************************************)
AccountsResolved == acct.pc = "done"

\* the webhookPath configured for an account: its own section's, else the
\* channel section's
ConfiguredPathOf(id) ==
    LET own == IF id \in DOMAIN acct.channel.accounts
               THEN acct.channel.accounts[id].webhookPath ELSE Undefined
    IN  IF own # Undefined THEN own ELSE acct.channel.base.webhookPath

PathIsSet(id) == ConfiguredPathOf(id) # Undefined /\ trim(ConfiguredPathOf(id).v) # <<>>

ExpectedPathOf(id) ==
    IF PathIsSet(id) THEN trim(ConfiguredPathOf(id).v)
    ELSE IF id = <<"default">> THEN <<"/", "t", "g", "r", "e", "l", "a", "y">>
    ELSE <<"/", "t", "g", "r", "e", "l", "a", "y", "/">> \o id

PathsAsConfiguredOrDerived ==
    \A i \in 1..Len(acct.resolved) :
        acct.resolved[i].webhookPath = ExpectedPathOf(acct.resolved[i].accountId)

Approved == ntf.pc \in {"sending", "returned"}

\* the chat id the claim assigns to each drawn sender id
ExpectedApprovalChatId ==
    CASE ntf.id = <<"5", "5", "5">> -> Num(555)
      [] ntf.id = <<"-", "1", "0">> -> Num(-10)
      [] ntf.id = <<" ", "7">> -> Num(7)
      [] OTHER -> Str(ntf.id)

OneApprovalText ==
    /\ Len(ntf.sends) = 1
    /\ ntf.sends[1].chatId = ExpectedApprovalChatId
    /\ ntf.sends[1].text = <<"PAIRING_APPROVED_MESSAGE">>
    /\ ntf.sends[1].account.accountId = <<"default">>

\* the outboundUrl of the default account: its section's, else the channel's
DefaultAccountUrl ==
    LET own == IF <<"default">> \in DOMAIN ntf.channel.accounts
               THEN ntf.channel.accounts[<<"default">>].outboundUrl ELSE Undefined
    IN  IF own # Undefined THEN own ELSE ntf.channel.base.outboundUrl

\* the statement as given: every approval sends exactly one notification
C32_EveryApprovalNotifies == Approved => OneApprovalText

\* C32: a pairing approval of a sender id sends exactly one approval text
\* through the direct relay of the default account, to the chat id equal to
\* the sender id (a number when the id is a non-zero number), when the
\* default account has an outboundUrl, and sends nothing when it has none.
C32_ApprovalNotifiesWhenConfigured ==
    Approved =>
        IF DefaultAccountUrl # Undefined THEN OneApprovalText
        ELSE ntf.sends = <<>> /\ ntf.pc = "returned"

\* sender 555 was approved and the one notification went to chat 555
C32_Witness ==
    /\ ntf.pc = "returned"
    /\ ntf.id = <<"5", "5", "5">>
    /\ ntf.results = <<TRUE>>
    /\ OneApprovalText
    /\ ntf.sends[1].chatId = Num(555)

(***************************************************************************)
(* Claims about deliverTgrelayReply                                        *)
(***************************************************************************)
TextReply ==
    /\ dlv.pc # "idle"
    /\ dlv.payload.text = Str(<<"reply">>)
    /\ dlv.payload.mediaUrls \in {Undefined, List(<<>>)}
    /\ dlv.payload.mediaUrl = Undefined

\* C33: the chunks of one text reply are sent one at a time in chunk order:
\* the k-th send is of the k-th chunk, only the last send made can be
\* unfinished; no chunk is sent twice, and whatever the earlier sends gave,
\* the delivery returns only after every chunk was attempted once.
C33_ChunksInOrderNoRetry ==
    TextReply =>
        /\ Len(dlv.sends) <= Len(dlv.chunks)
        /\ \A k \in 1..Len(dlv.sends) :
              /\ dlv.sends[k].call.fn = "sendTgrelayText"
              /\ dlv.sends[k].call.content = dlv.chunks[k]
              /\ k < Len(dlv.sends) => dlv.sends[k].outcome # "pending"
        /\ dlv.pc = "sending" =>
              (dlv.sends # <<>> /\ dlv.sends[Len(dlv.sends)].outcome = "pending")
        /\ dlv.pc = "returned" =>
              /\ Len(dlv.sends) = Len(dlv.chunks)
              /\ \A k \in 1..Len(dlv.sends) : dlv.sends[k].outcome # "pending"

\* a partial delivery: the second of three chunks failed, the third was sent
C33_Witness ==
    /\ TextReply
    /\ dlv.pc = "returned"
    /\ Len(dlv.sends) = 3
    /\ dlv.sends[1].outcome = "ok"
    /\ dlv.sends[2].outcome = "failed"
    /\ dlv.sends[3].outcome = "ok"

(***************************************************************************)
(* Claims about the registry                                               *)
(***************************************************************************)
\* the targets registered and not yet unregistered
LiveTargets == {t \in unregisterFns : t.id \notin unregistered}

PositionsOf(t) ==
    {i \in 1..Len(targetsAt(webhookTargets, t.path)) : webhookTargets[t.path][i] = t}

C34_State ==
    /\ \A k \in DOMAIN webhookTargets :
          /\ webhookTargets[k] # <<>>
          /\ \E raw \in RawTargetPaths : k = normalizeWebhookPath(raw)
          /\ \A i \in 1..Len(webhookTargets[k]) :
                /\ webhookTargets[k][i] \in LiveTargets
                /\ webhookTargets[k][i].path = k
                /\ \A j \in 1..Len(webhookTargets[k]) :
                      i < j => webhookTargets[k][i].id < webhookTargets[k][j].id
    /\ \A t \in LiveTargets : Cardinality(PositionsOf(t)) = 1

C34_Step ==
    \A t \in unregisterFns :
        Unregister(t) =>
            /\ t.id \in unregistered => webhookTargets' = webhookTargets
            /\ \A u \in LiveTargets \ {t} :
                  u.path \in DOMAIN webhookTargets' /\
                  \E i \in 1..Len(webhookTargets'[u.path]) : webhookTargets'[u.path][i] = u

\* C34: in every state the registry holds under each normalized path the
\* targets registered there and not yet unregistered, each once and as it
\* was registered, in registration order, and never an empty list; an
\* unregister call removes no other target than its own, and a repeated
\* unregister call leaves the registry as it is.
C34_RegistryHoldsLiveTargets == []C34_State /\ [][C34_Step]_vars

\* one account registered twice, the first registration unregistered
C34_Witness ==
    /\ Cardinality(unregisterFns) = 2
    /\ \A t, u \in unregisterFns :
          t.path = u.path /\ t.inboundSecret = u.inboundSecret
    /\ unregistered = {1}
    /\ \E t \in unregisterFns : t.id = 2 /\ webhookTargets[t.path] = <<t>>

(***************************************************************************)
(* Claims about group entries keyed by a chat id                           *)
(***************************************************************************)
\* the group keys of the drawn configurations that are chat ids
ChatIdKeys == {<<"-", "1", "0">>}

OnlyOtherChatsConfigured(t) ==
    /\ DOMAIN cfg.groups # {}
    /\ DOMAIN cfg.groups \subseteq ChatIdKeys
    /\ String(Num(tasks[t].msg.chatId)) \notin DOMAIN cfg.groups

\* C36: under groupPolicy allowlist, with group entries keyed by chat ids only
\* (no "*" entry), a message of a chat whose id is not one of the keys is
\* never routed to the agent, whatever the title of the chat.
C36_IdEntryOnlyForItsChat ==
    \A t \in DOMAIN tasks :
        ( /\ Started(t) /\ GroupChat(t)
          /\ EffectiveGroupPolicy = "allowlist"
          /\ OnlyOtherChatsConfigured(t) ) => ~tasks[t].routed

(***************************************************************************)
(* Claims about a pairing store that cannot be read                        *)
(***************************************************************************)
SenderInConfiguredList(t) ==
    \E i \in 1..Len(cfg.dmAllowFrom) : cfg.dmAllowFrom[i] = Num(tasks[t].msg.from.id)

ConfiguredDmPolicy == IF cfg.dmPolicy = "unset" THEN "pairing" ELSE cfg.dmPolicy

\* C37: when the read of the pairing allow store fails while a private-chat
\* message is processed, the task does not fail; the store counts as empty:
\* under pairing and allowlist a sender of the configured dm.allowFrom is
\* routed, any other sender, also one the store lists, gets a pairing
\* request under pairing and is dropped without a reply under allowlist.
C37_StoreFailureFailsClosed ==
    \A t \in DOMAIN tasks :
        (tasks[t].storeReadFailed /\ PrivateChat(t)
             /\ ConfiguredDmPolicy \in {"pairing", "allowlist"}) =>
            /\ tasks[t].storeAllowFrom = <<>>
            /\ tasks[t].failed => tasks[t].routed
            /\ IF SenderInConfiguredList(t)
               THEN tasks[t].verdict = "route" /\ tasks[t].routed
               ELSE IF ConfiguredDmPolicy = "pairing"
               THEN tasks[t].verdict = "pair" /\ ~tasks[t].routed
               ELSE /\ tasks[t].verdict = "unauthorized"
                    /\ tasks[t].pc = "done"
                    /\ ~tasks[t].routed
                    /\ tasks[t].upserts = 0
                    /\ tasks[t].sendCalls = <<>>

\* sender 555 is in the store, the read failed, and a pairing request was made
C37_Witness ==
    /\ tasks[1].storeReadFailed /\ PrivateChat(1)
    /\ ConfiguredDmPolicy = "pairing"
    /\ 555 \in allowStore
    /\ tasks[1].msg.from.id = 555
    /\ ~SenderInConfiguredList(1)
    /\ tasks[1].verdict = "pair"
    /\ tasks[1].upserts = 1

(***************************************************************************)
(* Claims about the abort signal of webhook startup                        *)
(***************************************************************************)
\* C39: once the abortSignal passed to startTelegramWebhook is aborted, at
\* whatever point of the startup or after it, a startup that has returned
\* does not leave the server listening: shutdown (server.close, bot.stop)
\* has run.
C39_AbortStopsTheServer ==
    (startup.signalAborted /\ startup.pc = "running") =>
        (~startup.listening /\ startup.closed /\ startup.botStopped)

(***************************************************************************)
(* Claims about the browser control service                                *)
(***************************************************************************)
StartInProgress(b) ==
    \E c \in 1..MaxCalls : b.calls[c].kind = "start" /\ InProgress(b.calls[c])

AtMostOneServer == Cardinality(bcs.listening) <= 1

StartsReturnTheState ==
    \A c \in 1..MaxCalls :
        (/\ bcs.calls[c].kind = "start"
         /\ bcs.calls[c].pc = "returned"
         /\ bcs.resolved.enabled
         /\ ~bcs.resolved.portTaken) => bcs.calls[c].result # Null

StopLeavesNull ==
    \A c \in 1..MaxCalls :
        (/\ bcs.calls[c].kind = "stop"
         /\ bcs.calls[c].pc # "returned"
         /\ bcs'.calls[c].pc = "returned"
         /\ ~StartInProgress(bcs')) => bcs'.state = Null

\* C40: for every interleaving of start and stop calls, at most one browser
\* control server listens, every start call made with browser control
\* enabled and the port not held by another process returns the state of
\* the service and never null, and when a stop call returns with no start
\* call in progress the state is null.
C40_StartStopUnderAnyInterleaving ==
    /\ [](AtMostOneServer /\ StartsReturnTheState)
    /\ [][StopLeavesNull]_vars

(***************************************************************************)
(* SpecAllow: isSenderAllowed applied to every drawn input                 *)
(***************************************************************************)
InitAllow ==
    /\ aPc = "call"
    /\ aSenderId \in AllowSenderIds
    /\ aUsername \in AllowUsernames
    /\ aAllowFrom \in AllowLists
    /\ aResult = FALSE
    /\ VerifyOff
    /\ RouterOff
    /\ PipelineOff
    /\ GroupOff /\ MentionOff /\ RpcOff /\ LateOff

CallIsSenderAllowed ==
    /\ aPc = "call"
    /\ aResult' = isSenderAllowed(aSenderId, aUsername, aAllowFrom)
    /\ aPc' = "done"
    /\ UNCHANGED <<aSenderId, aUsername, aAllowFrom, verifyVars, routerVars, pipelineVars, moreVars>>

NextAllow == CallIsSenderAllowed

SpecAllow == InitAllow /\ [][NextAllow]_vars

(***************************************************************************)
(* SpecVerify: verifyInboundSecret applied to every drawn input            *)
(***************************************************************************)
InitVerify ==
    /\ vPc = "call"
    /\ vReq \in VerifyRequests
    /\ vSecret \in VerifySecrets
    /\ vResult = FALSE
    /\ AllowOff
    /\ RouterOff
    /\ PipelineOff
    /\ GroupOff /\ MentionOff /\ RpcOff /\ LateOff

CallVerifyInboundSecret ==
    /\ vPc = "call"
    /\ vResult' = verifyInboundSecret(vReq, vSecret)
    /\ vPc' = "done"
    /\ UNCHANGED <<vReq, vSecret, allowVars, routerVars, pipelineVars, moreVars>>

NextVerify == CallVerifyInboundSecret

SpecVerify == InitVerify /\ [][NextVerify]_vars

(***************************************************************************)
(* C1, C2, C4, C5: the webhook router                                      *)
(***************************************************************************)
\* C1: a request is dispatched (processTgrelayUpdate) only to a target that
\* is registered at the moment of dispatch: never before its register call
\* has completed and never after its unregister call has completed, also
\* when the unregister runs while the request body is being read.
C1_DispatchOnlyToRegistered ==
    \A i \in 1..Len(hreq.dispatched) : hreq.dispatched[i].registered

SecretCheckPasses(target) == verifyInboundSecret(hreq.cred, target.inboundSecret)

ValidPost ==
    /\ hreq.pc = "done"
    /\ hreq.method = "POST"
    /\ Len(hreq.targets) > 0
    /\ hreq.body.len <= MaxBodyBytes
    /\ hreq.body.content \in {"update", "updateNoMessage"}

\* C2: among the targets registered under the request's normalized path, a
\* valid POST is dispatched to the earliest-registered one whose secret
\* check passes and to no other; if none passes, the answer is 401 and the
\* update is dispatched to none.
C2_EarliestPassingTarget ==
    ValidPost =>
        LET passing == {i \in 1..Len(hreq.targets) : SecretCheckPasses(hreq.targets[i])}
        IN  IF passing = {}
            THEN hreq.res.statusCode = 401 /\ hreq.dispatched = <<>>
            ELSE /\ Len(hreq.dispatched) = 1
                 /\ \E i \in passing : hreq.dispatched[1].target = hreq.targets[i]
                 /\ \A i \in passing : hreq.dispatched[1].target.id <= hreq.targets[i].id

\* two targets share the path; the first refuses the request, the second takes it
C2_Witness ==
    /\ ValidPost
    /\ Len(hreq.targets) = 2
    /\ ~SecretCheckPasses(hreq.targets[1])
    /\ Len(hreq.dispatched) = 1
    /\ hreq.dispatched[1].target.id = 2

C4_BodyNotJsonObject ==
    hreq.body.content \in {"empty", "blank", "malformed", "null", "number", "array"}

C4_NoNumericUpdateId == hreq.body.content \in {"objectNoId", "objectStringId"}

\* C4: the handler decides in this order: no target under the normalized
\* path: returns false, response untouched; not POST: 405 with Allow: POST;
\* body over 1 MiB: 413; body empty, not JSON or not an object: 400;
\* update_id missing or not a number: 400; no credential check passes: 401;
\* otherwise 200.  It returns true in every case but the first.
C4_DecisionOrder ==
    (hreq.pc = "done" /\ hreq.body.content # "streamError") =>
        IF Len(hreq.targets) = 0
        THEN hreq.returned = "false" /\ hreq.res = FreshResponse
        ELSE /\ hreq.returned = "true"
             /\ hreq.res.ended
             /\ IF hreq.method # "POST"
                THEN hreq.res.statusCode = 405 /\ hreq.res.allow = "POST"
                ELSE IF hreq.body.len > 1048576 THEN hreq.res.statusCode = 413
                ELSE IF C4_BodyNotJsonObject THEN hreq.res.statusCode = 400
                ELSE IF C4_NoNumericUpdateId THEN hreq.res.statusCode = 400
                ELSE IF \A i \in 1..Len(hreq.targets) : ~SecretCheckPasses(hreq.targets[i])
                     THEN hreq.res.statusCode = 401
                ELSE hreq.res.statusCode = 200

\* a body without update_id from a request no target accepts: 400, not 401
C4_Witness ==
    /\ hreq.pc = "done"
    /\ hreq.method = "POST"
    /\ hreq.body.content = "objectNoId"
    /\ \A i \in 1..Len(hreq.targets) : ~SecretCheckPasses(hreq.targets[i])
    /\ hreq.res.statusCode = 400

\* C5: a POST with a JSON-object body, a numeric update_id and a passing
\* credential is answered 200 with body {} whatever the detached processing
\* does later; a processing failure reaches only the selected target's
\* error log and never changes the response.
C5_AcceptedAlways200 ==
    (ValidPost /\ \E i \in 1..Len(hreq.targets) : SecretCheckPasses(hreq.targets[i])) =>
        /\ hreq.res.ended
        /\ hreq.res.statusCode = 200
        /\ hreq.res.body = "{}"
        /\ hreq.returned = "true"
        /\ Len(hreq.dispatched) = 1
        /\ hreq.errors =
              IF hreq.task = "rejected" THEN <<hreq.dispatched[1].target.id>> ELSE <<>>

\* the detached processing has failed after the 200 was sent
C5_Witness ==
    /\ ValidPost
    /\ hreq.task = "rejected"
    /\ hreq.res.statusCode = 200
    /\ hreq.errors # <<>>

(***************************************************************************)
(* C3                                                                      *)
(***************************************************************************)
\* A secret is unset when it is undefined or the empty string.
SecretUnset(s) == s = Undefined \/ s = Str(<<>>)

\* C3: verifyInboundSecret returns true if and only if the secret is unset,
\* or the secret-token header equals the secret, or the `secret` query
\* parameter equals the secret, or the Authorization header equals
\* "Bearer <secret>"; every other request is refused.
C3_VerifyIff ==
    vPc = "done" =>
        (vResult <=>
            \/ SecretUnset(vSecret)
            \/ vReq.header = vSecret
            \/ vReq.query = vSecret
            \/ /\ vReq.authorization # Undefined
               /\ vReq.authorization.v = sBearerSp \o vSecret.v)

\* a request accepted through the bearer form only
C3_Witness ==
    /\ vPc = "done" /\ vResult
    /\ vSecret = Str(sA)
    /\ vReq.header # vSecret /\ vReq.query # vSecret
    /\ vReq.authorization = Str(sBearerSp \o sA)

(***************************************************************************)
(* C10                                                                     *)
(***************************************************************************)
\* case, surrounding whitespace and one leading @ removed
Canon(s) ==
    LET t == trim(s)
        u == IF t # <<>> /\ Head(t) = "@" THEN Tail(t) ELSE t
    IN  toLowerCase(u)

ChannelPrefixes == {pfxTgrelay, pfxTelegramRelay, pfxTgRelay}

C10_UsernameMatch(e) ==
    /\ aUsername # Undefined
    /\ Canon(aUsername.v) # <<>>
    /\ Canon(String(e)) = Canon(aUsername.v)

C10_IdMatch(e) ==
    \/ Canon(String(e)) = String(aSenderId)
    \/ \E p \in ChannelPrefixes : Canon(String(e)) = p \o String(aSenderId)

C10_InList(e) == \E i \in 1..Len(aAllowFrom) : aAllowFrom[i] = e

\* C10: isSenderAllowed matches insensitively to case, surrounding
\* whitespace and one leading @: an entry equal to the username or to the
\* numeric id (optionally channel-prefixed) matches, "*" matches everyone,
\* and nothing else matches; an empty entry matches nobody.
C10_AllowMatch ==
    aPc = "done" =>
        /\ aResult <=>
              \/ C10_InList(Str(sStar))
              \/ \E i \in 1..Len(aAllowFrom) :
                    C10_UsernameMatch(aAllowFrom[i]) \/ C10_IdMatch(aAllowFrom[i])
        /\ (aUsername = Str(sbob)
              /\ (C10_InList(Str(sBob)) \/ C10_InList(Str(sbob)) \/ C10_InList(Str(sAtBob))))
            => aResult
        /\ (\A i \in 1..Len(aAllowFrom) : Canon(String(aAllowFrom[i])) = <<>>)
            => ~aResult

\* the entry "Bob" has matched the sender whose username is bob
C10_Witness ==
    /\ aPc = "done" /\ aResult
    /\ aUsername = Str(sbob) /\ aSenderId = Num(7)
    /\ aAllowFrom = <<Str(<<>>), Str(sBob)>>

(***************************************************************************)
(* Claims about targets that share a path                                  *)
(***************************************************************************)
\* the request presents `secret` in the header, the query or as a bearer token
Carries(secret) ==
    \/ hreq.cred.header = Str(secret)
    \/ hreq.cred.query = Str(secret)
    \/ hreq.cred.authorization = Str(<<"B", "e", "a", "r", "e", "r", " ">> \o secret)

CarriesSomeCredential == hreq.cred # NoCredential

HasSecret(target) == target.inboundSecret # Undefined

SharedPathPost == ValidPost /\ Len(hreq.targets) >= 2

MatchesNoSecret ==
    /\ CarriesSomeCredential
    /\ \A i \in 1..Len(hreq.targets) :
          HasSecret(hreq.targets[i]) => ~Carries(hreq.targets[i].inboundSecret.v)

OnlyOwnSecretReaches ==
    \A i \in 1..Len(hreq.dispatched) :
        HasSecret(hreq.dispatched[i].target) =>
            Carries(hreq.dispatched[i].target.inboundSecret.v)

SecretlessTargets == {i \in 1..Len(hreq.targets) : ~HasSecret(hreq.targets[i])}

\* the statement as given: a secret matching no target's secret gives 401,
\* whatever else is registered at the path
C35_UnmatchedSecretRefused ==
    SharedPathPost =>
        /\ OnlyOwnSecretReaches
        /\ MatchesNoSecret => (hreq.res.statusCode = 401 /\ hreq.dispatched = <<>>)

\* C35: at a path shared by several targets, a target with a configured
\* secret receives updates only from requests that carry its own secret; a
\* request whose credential matches no target's secret is answered 401 when
\* every target at the path has a secret, and goes to the earliest
\* registered target without a secret when there is one.
C35_UnmatchedSecretGoesToOpenTarget ==
    SharedPathPost =>
        /\ OnlyOwnSecretReaches
        /\ MatchesNoSecret =>
              IF SecretlessTargets = {}
              THEN hreq.res.statusCode = 401 /\ hreq.dispatched = <<>>
              ELSE /\ hreq.res.statusCode = 200
                   /\ Len(hreq.dispatched) = 1
                   /\ \E i \in SecretlessTargets :
                         /\ hreq.dispatched[1].target = hreq.targets[i]
                         /\ \A j \in SecretlessTargets : i <= j

\* a target with secret "a" and a target without secret share the path; a
\* request with the unknown secret "c" went to the second
C35_Witness ==
    /\ SharedPathPost
    /\ hreq.targets[1].inboundSecret = Str(<<"a">>)
    /\ hreq.targets[2].inboundSecret = Undefined
    /\ hreq.cred.header = Str(<<"c">>)
    /\ Len(hreq.dispatched) = 1
    /\ hreq.dispatched[1].target = hreq.targets[2]

====
